---- MODULE Spec2Model ----
(***************************************************************************)
(* Backtest simulation and validation engine (amarcoder01/f1).             *)
(*                                                                         *)
(* SpecSim   PolygonBacktestingEngine._run_momentum_strategy and           *)
(*           _run_mean_reversion_strategy, one date at a time.             *)
(*                                                                         *)
(* SpecEnh   EnhancedBacktester._execute_trades over the signals of         *)
(*           MomentumStrategy.calculate_signals, one row at a time.        *)
(*                                                                         *)
(* SpecRate  get_multiple_stocks_data: batches of concurrent                *)
(*           get_historical_data tasks behind _rate_limit_check.           *)
(*                                                                         *)
(* SpecRun   one run_backtest or run_enhanced_backtest call, from the      *)
(*           fetch to the returned dictionary.                             *)
(*                                                                         *)
(* SpecWF    WalkForwardAnalyzer.run_walk_forward, one window per step.    *)
(*                                                                         *)
(* SpecMC    MonteCarloSimulator.run_monte_carlo in a process whose other   *)
(*           code seeds and uses numpy's global random generator.          *)
(*                                                                         *)
(* SpecDD    max_drawdown of one equity curve by the three implementations. *)
(*                                                                         *)
(* SpecVal   BacktestValidator.validate_calculations on results of which    *)
(*           some trades were altered.                                     *)
(* SpecSimVal the simulation of SpecSim followed by validate_calculations  *)
(*           on its results, as run_backtest calls it.                     *)
(*                                                                         *)
(* Python floats are modelled as exact rationals <<n, d>> with d > 0 in    *)
(* lowest terms; closes are positive integers.                             *)
(***************************************************************************)
EXTENDS Integers, Sequences, FiniteSets, TLC

VARIABLES
    \* ---- PolygonBacktestingEngine simulation (SpecSim)
    strategy,         \* strategy_name: "momentum" | "mean_reversion"
    dataOrder,        \* iteration order of the data dict (its keys)
    data,             \* data[symbol][date]: a bar or NoBar
    params,           \* params dict: initial_capital, commission, position_size, max_positions
    config,           \* strategy parameters read from config
    cash,             \* results['cash']
    positions,        \* results['positions'], in insertion order
    trades,           \* results['trades']
    portfolio_value,  \* results['portfolio_value']
    dates,            \* results['dates']
    total_value,      \* results['total_value']
    di,               \* index of the current date in all_dates
    pc,               \* position inside the body of `for date in all_dates`
    queue,            \* symbols still to be visited by the running inner loop
    \* ---- EnhancedBacktester._execute_trades (SpecEnh)
    signals,          \* the signals frame: rows of Price and Signal
    parameters,       \* parameters dict of the run
    position,         \* signed share count, 0 when flat
    entry_price,
    entry_date,
    e_cash,           \* the local cash of _execute_trades
    e_trades,         \* the local trades list of _execute_trades
    row,              \* index of the row the loop is at
    e_pc,             \* position inside the loop body
    \* ---- PolygonBacktestingEngine data fetch (SpecRate, SpecRun)
    symbols,          \* the symbols argument
    outcome,          \* what the data source answers for each symbol
    now,              \* time.time(), in seconds
    request_times,    \* self.request_times
    admitted,         \* every time ever appended to request_times (history)
    batch_start,      \* i, the start index of the running batch
    tasks,            \* the get_historical_data tasks of the running batch
    g_pc,             \* position inside get_multiple_stocks_data
    delay_until,      \* end of the sleep between two batches
    data_dict,        \* symbols that have data, in insertion order
    \* ---- one run_backtest / run_enhanced_backtest call (SpecRun)
    engine,           \* "polygon" or "enhanced"
    strategy_name,    \* the strategy_name argument
    r_pc,             \* position inside the call
    result,           \* the returned dictionary
    sim_ran,          \* the strategy simulation was run
    has_trades,       \* results['trades'] is not empty
    validation,       \* what run_comprehensive_validation computed
    artifacts,        \* files written
    \* ---- WalkForwardAnalyzer.run_walk_forward (SpecWF)
    data_len,         \* len(data)
    train_period,     \* self.train_period
    test_period,      \* self.test_period
    step_size,        \* self.step_size
    wf_strategy,      \* the kind of the strategy argument
    start_idx,        \* the loop variable
    wf_results,       \* results, one entry per evaluated window
    wf_pc,            \* position inside run_walk_forward
    wf_analysis,      \* the returned analysis
    \* ---- MonteCarloSimulator.run_monte_carlo (SpecMC)
    np_random,        \* the state of numpy's global random generator
    mc_seed,          \* the seed given to np.random.seed since the last run (history)
    other_uses,       \* draws made by other code of the process (history)
    mc_returns,       \* the returns argument, as the factors 1 + r
    n_simulations,    \* self.n_simulations
    mc_log,           \* the analysis returned by each run, with the seed in force
    \* ---- max_drawdown of one equity curve, three ways (SpecDD)
    equity_curve,     \* the portfolio values V_0 .. V_n
    max_drawdown,     \* the value each implementation returns
    \* ---- BacktestValidator.validate_calculations (SpecVal, SpecSimVal)
    val_results,      \* the backtest_results argument
    corrupted,        \* the trades whose pnl was altered (history)
    calculation_validation,  \* the returned ValidationResult
    val_pc,           \* "idle", "ready" (argument given) or "done"
    \* ---- BacktestValidator._validate_known_data_points (SpecKnown)
    kp_symbol,        \* the symbol argument
    kp_df,            \* the df argument: reference date -> row or NoRow
    kp_score,         \* the returned score, <<>> before the call
    kp_pc,            \* "idle", "ready" or "done"
    \* ---- the backtest command of the two CLIs (SpecCli)
    cli_parameters,   \* the --parameters argument: "absent", "valid" or "invalid" JSON
    stdout,           \* what the command printed
    exit_status,      \* -1 while the process runs
    cli_pc,           \* "idle", "start", "engine", "printed" or "exited"
    \* ---- the parameters of PolygonBacktestingEngine.run_backtest (SpecParams)
    rp_strategy_name, \* the strategy_name argument
    rp_parameters,    \* the parameters argument: the keys the caller supplied
    rp_params,        \* params, the merged dictionary
    rp_config,        \* strategy_config['parameters']
    rp_used,          \* the values the strategy loop reads
    rp_pc,            \* "idle", "called", "merged" or "read"
    validation_results,      \* the dictionary run_comprehensive_validation builds
    cv_pc                    \* position in run_comprehensive_validation

simVars == <<strategy, dataOrder, data, params, config, cash, positions, trades,
             portfolio_value, dates, total_value, di, pc, queue>>

enhVars == <<signals, parameters, position, entry_price, entry_date, e_cash,
             e_trades, row, e_pc>>

netVars == <<symbols, outcome, now, request_times, admitted, batch_start, tasks, g_pc,
             delay_until, data_dict>>

runVars == <<engine, strategy_name, r_pc, result, sim_ran, has_trades, validation, artifacts>>

wfVars == <<data_len, train_period, test_period, step_size, wf_strategy, start_idx,
            wf_results, wf_pc, wf_analysis>>

mcVars == <<np_random, mc_seed, other_uses, mc_returns, n_simulations, mc_log>>

ddVars == <<equity_curve, max_drawdown>>

valVars == <<val_results, corrupted, calculation_validation, val_pc>>

kpVars == <<kp_symbol, kp_df, kp_score, kp_pc>>

cliVars == <<cli_parameters, stdout, exit_status, cli_pc>>

parVars == <<rp_strategy_name, rp_parameters, rp_params, rp_config, rp_used, rp_pc>>

repVars == <<validation_results, cv_pc>>

vars == <<simVars, enhVars, netVars, runVars, wfVars, mcVars, ddVars, valVars, kpVars, cliVars, parVars, repVars>>

\* what the steps of one component leave alone
notSim == <<enhVars, netVars, runVars, wfVars, mcVars, ddVars, valVars, kpVars, cliVars, parVars, repVars>>
notEnh == <<simVars, netVars, runVars, wfVars, mcVars, ddVars, valVars, kpVars, cliVars, parVars, repVars>>
notNet == <<simVars, enhVars, runVars, wfVars, mcVars, ddVars, valVars, kpVars, cliVars, parVars, repVars>>
notRun == <<simVars, enhVars, netVars, wfVars, mcVars, ddVars, valVars, kpVars, cliVars, parVars, repVars>>
notWF == <<simVars, enhVars, netVars, runVars, mcVars, ddVars, valVars, kpVars, cliVars, parVars, repVars>>
notMC == <<simVars, enhVars, netVars, runVars, wfVars, ddVars, valVars, kpVars, cliVars, parVars, repVars>>
notDD == <<simVars, enhVars, netVars, runVars, wfVars, mcVars, valVars, kpVars, cliVars, parVars, repVars>>
notVal == <<simVars, enhVars, netVars, runVars, wfVars, mcVars, ddVars, kpVars, cliVars, parVars, repVars>>
notSimVal == <<enhVars, netVars, runVars, wfVars, mcVars, ddVars, kpVars, cliVars, parVars, repVars>>
notKnown == <<simVars, enhVars, netVars, runVars, wfVars, mcVars, ddVars, valVars, cliVars, parVars, repVars>>
notCli == <<simVars, enhVars, netVars, runVars, wfVars, mcVars, ddVars, valVars, kpVars, parVars, repVars>>

-----------------------------------------------------------------------------
(* Bounds of the model *)

\* number of calendar dates a bar can carry
MaxDates == 2

-----------------------------------------------------------------------------
(* Exact rational arithmetic standing for Python float arithmetic *)

Abs(x) == IF x < 0 THEN -x ELSE x

RECURSIVE GCD(_, _)
GCD(a, b) == IF b = 0 THEN a ELSE GCD(b, a % b)

Norm(n, d) ==
    LET g == GCD(Abs(n), Abs(d))
        s == IF d < 0 THEN -1 ELSE 1
    IN  <<(s * n) \div g, (s * d) \div g>>

R(n) == <<n, 1>>
\* denominators are positive; common factors are divided out before multiplying
RAdd(x, y) ==
    LET g == GCD(x[2], y[2])
    IN  Norm(x[1] * (y[2] \div g) + y[1] * (x[2] \div g), (x[2] \div g) * y[2])
RSub(x, y) == RAdd(x, <<-y[1], y[2]>>)
RMul(x, y) ==
    LET g1 == GCD(Abs(x[1]), y[2])
        g2 == GCD(Abs(y[1]), x[2])
    IN  Norm((x[1] \div g1) * (y[1] \div g2), (x[2] \div g2) * (y[2] \div g1))
RDiv(x, y) == RMul(x, Norm(y[2], y[1]))
RLeq(x, y) ==
    LET g == GCD(x[2], y[2])
    IN  x[1] * (y[2] \div g) <= y[1] * (x[2] \div g)
RLt(x, y) ==
    LET g == GCD(x[2], y[2])
    IN  x[1] * (y[2] \div g) < y[1] * (x[2] \div g)
RZero == R(0)
ROne == R(1)

-----------------------------------------------------------------------------
(* Inputs of the simulation *)

Symbols == {"A", "B"}
Dates == 1..MaxDates
Closes == {1, 2}

NoBar == [close |-> 0, rsi |-> 0, present |-> FALSE]
\* the rsi column is NaN until the rolling window of _calculate_rsi is full
NaN == 999
OversoldRsi == 20
OverboughtRsi == 80

Bar(c, r) == [close |-> c, rsi |-> r, present |-> TRUE]

SeqRange(q) == {q[i] : i \in 1..Len(q)}

\* symbol in data and date in data[symbol].index
HasBar(s, d) == s \in SeqRange(dataOrder) /\ data[s][d].present
Close(s, d) == data[s][d].close
Rsi(s, d) == data[s][d].rsi

RECURSIVE SortSet(_)
SortSet(S) ==
    IF S = {} THEN <<>>
    ELSE LET m == CHOOSE x \in S : \A y \in S : x <= y
         IN  <<m>> \o SortSet(S \ {m})

\* df.index of one symbol: the dates of its bars, ascending
df_index(s) == SortSet({d \in Dates : data[s][d].present})

\* all_dates = sorted(union of every df.index)
all_dates == SortSet({d \in Dates : \E s \in SeqRange(dataOrder) : data[s][d].present})

date == all_dates[di]

\* df.index.get_loc(date), 0-based
get_loc(s, d) == (CHOOSE i \in 1..Len(df_index(s)) : df_index(s)[i] = d) - 1

-----------------------------------------------------------------------------
(* The ledger *)

PosSymbols == {positions[i].symbol : i \in 1..Len(positions)}
PosOf(s) == positions[CHOOSE i \in 1..Len(positions) : positions[i].symbol = s]

RECURSIVE RemovePos(_, _)
RemovePos(ps, s) ==
    IF ps = <<>> THEN <<>>
    ELSE IF Head(ps).symbol = s THEN Tail(ps)
    ELSE <<Head(ps)>> \o RemovePos(Tail(ps), s)

\* sum over the positions that have a bar on d of quantity * Close
RECURSIVE HoldingsValue(_, _)
HoldingsValue(ps, d) ==
    IF ps = <<>> THEN RZero
    ELSE LET p == Head(ps)
             v == IF HasBar(p.symbol, d)
                  THEN RMul(p.quantity, R(Close(p.symbol, d)))
                  ELSE RZero
         IN  RAdd(v, HoldingsValue(Tail(ps), d))

\* portfolio_value = cash + sum(quantity * current_price)
MarkToMarket(c, ps, d) == RAdd(c, HoldingsValue(ps, d))

\* a sale that forgets the commission
ExitValueNoCommission(quantity, price) == RMul(quantity, R(price))

\* exit_value = quantity * current_price * (1 - commission)
ExitValue(quantity, price) ==
    RMul(RMul(quantity, R(price)), RSub(ROne, params.commission))

\* cost = quantity * price * (1 + commission)
EntryCost(quantity, price) ==
    RMul(RMul(quantity, R(price)), RAdd(ROne, params.commission))

\* quantity = cash * position_size / price
EntryQuantity(c, price) == RDiv(RMul(c, params.position_size), R(price))

\* an entry that is never refused
CanAffordAlways(cost, c) == TRUE

\* if cost <= results['cash']
CanAfford(cost, c) == RLeq(cost, c)

\* days_held = (date - position['entry_date']).days
DaysHeld(p, d) == d - p.entry_date

RsiAbove(r, x) == r # NaN /\ r > x
RsiBelow(r, x) == r # NaN /\ r < x

\* the exit condition of the running strategy
ExitCondition(p, d) ==
    \/ DaysHeld(p, d) >= config.holding_period
    \/ /\ strategy = "mean_reversion"
       /\ RsiAbove(Rsi(p.symbol, d), config.overbought_threshold)

\* a defective trade record whose pnl leaves the commissions out
TradeGrossPnl(p, d, price) ==
    LET gross == RMul(p.quantity, R(price - p.entry_price))
    IN  [symbol |-> p.symbol,
         entry_date |-> p.entry_date,
         exit_date |-> d,
         entry_price |-> p.entry_price,
         exit_price |-> price,
         quantity |-> p.quantity,
         pnl |-> gross,
         pnl_pct |-> RDiv(gross, p.cost)]

Trade(p, d, price) ==
    LET exit_value == ExitValue(p.quantity, price)
    IN  [symbol |-> p.symbol,
         entry_date |-> p.entry_date,
         exit_date |-> d,
         entry_price |-> p.entry_price,
         exit_price |-> price,
         quantity |-> p.quantity,
         pnl |-> RSub(exit_value, p.cost),
         pnl_pct |-> RDiv(RSub(exit_value, p.cost), p.cost)]

-----------------------------------------------------------------------------
(* Momentum candidates *)

\* df.index[get_loc(date) - lookback]; a negative index counts from the end
LookbackDate(s, d) ==
    LET j == get_loc(s, d) - config.lookback_period
        n == Len(df_index(s))
    IN  df_index(s)[(IF j < 0 THEN j + n ELSE j) + 1]

Momentum(s, d) ==
    LET past == Close(s, LookbackDate(s, d))
    IN  RDiv(R(Close(s, d) - past), R(past))

IsCandidate(s, d) ==
    /\ s \notin PosSymbols
    /\ HasBar(s, d)
    /\ Len(df_index(s)) >= config.lookback_period
    /\ RLt(config.momentum_threshold, Momentum(s, d))

RECURSIVE SelectSeq2(_, _)
SelectSeq2(q, d) ==
    IF q = <<>> THEN <<>>
    ELSE IF IsCandidate(Head(q), d) THEN <<Head(q)>> \o SelectSeq2(Tail(q), d)
    ELSE SelectSeq2(Tail(q), d)

\* candidates.sort(key=momentum, reverse=True): stable, ties keep the data order
RECURSIVE SortByMomentum(_, _)
SortByMomentum(q, d) ==
    IF q = <<>> THEN <<>>
    ELSE LET i == CHOOSE i \in 1..Len(q) :
                    /\ \A j \in 1..Len(q) : RLeq(Momentum(q[j], d), Momentum(q[i], d))
                    /\ \A j \in 1..(i - 1) : RLt(Momentum(q[j], d), Momentum(q[i], d))
             rest == [k \in 1..(Len(q) - 1) |-> IF k < i THEN q[k] ELSE q[k + 1]]
         IN  <<q[i]>> \o SortByMomentum(rest, d)

Take(q, n) == IF n >= Len(q) THEN q ELSE SubSeq(q, 1, n)

\* candidates[:max_positions - len(positions)]
Candidates(d) ==
    Take(SortByMomentum(SelectSeq2(dataOrder, d), d),
         params.max_positions - Len(positions))

-----------------------------------------------------------------------------
(* One pass of `for date in all_dates` *)

\* lines 375-385 / 484-494: value the portfolio, then snapshot the open positions
UpdatePortfolioValue ==
    /\ UNCHANGED notSim
    /\ pc = "mark"
    /\ LET v == MarkToMarket(cash, positions, date)
       IN  /\ total_value' = v
           /\ portfolio_value' = Append(portfolio_value, v)
    /\ dates' = Append(dates, date)
    /\ queue' = [i \in 1..Len(positions) |-> positions[i].symbol]
    /\ pc' = "exits"
    /\ UNCHANGED <<strategy, dataOrder, data, params, config, cash, positions, trades, di>>

\* lines 388-413 / 497-523: one iteration of the exit loop
CheckExit ==
    /\ UNCHANGED notSim
    /\ pc = "exits"
    /\ queue # <<>>
    /\ LET s == Head(queue)
           p == PosOf(s)
       IN  IF HasBar(s, date) /\ ExitCondition(p, date)
           THEN /\ cash' = RAdd(cash, ExitValue(p.quantity, Close(s, date)))
                /\ trades' = Append(trades, Trade(p, date, Close(s, date)))
                /\ positions' = RemovePos(positions, s)
           ELSE UNCHANGED <<cash, trades, positions>>
    /\ queue' = Tail(queue)
    /\ UNCHANGED <<strategy, dataOrder, data, params, config, portfolio_value, dates,
                   total_value, di, pc>>

\* lines 416-437 / 526-527: the capacity test made once per date, and the symbols
\* the entry loop will visit
BeginEntries ==
    /\ UNCHANGED notSim
    /\ pc = "exits"
    /\ queue = <<>>
    /\ queue' = IF Len(positions) < params.max_positions
                THEN IF strategy = "momentum" THEN Candidates(date) ELSE dataOrder
                ELSE <<>>
    /\ pc' = "entries"
    /\ UNCHANGED <<strategy, dataOrder, data, params, config, cash, positions, trades,
                   portfolio_value, dates, total_value, di>>

\* lines 441-455 / 534-548: size the position and open it when it can be paid
OpenPosition(s) ==
    LET price == Close(s, date)
        quantity == EntryQuantity(cash, price)
        cost == EntryCost(quantity, price)
    IN  IF RLt(RZero, quantity) /\ CanAfford(cost, cash)
        THEN /\ positions' = Append(positions,
                    [symbol |-> s, quantity |-> quantity, entry_price |-> price,
                     entry_date |-> date, cost |-> cost])
             /\ cash' = RSub(cash, cost)
        ELSE UNCHANGED <<positions, cash>>

\* lines 437-455: one iteration over the selected momentum candidates
EnterMomentum ==
    /\ UNCHANGED notSim
    /\ pc = "entries"
    /\ strategy = "momentum"
    /\ queue # <<>>
    /\ OpenPosition(Head(queue))
    /\ queue' = Tail(queue)
    /\ UNCHANGED <<strategy, dataOrder, data, params, config, trades, portfolio_value,
                   dates, total_value, di, pc>>

\* lines 527-548: one iteration over data.items() of the mean-reversion entry loop
EnterMeanReversion ==
    /\ UNCHANGED notSim
    /\ pc = "entries"
    /\ strategy = "mean_reversion"
    /\ queue # <<>>
    /\ LET s == Head(queue)
       IN  IF /\ s \notin PosSymbols
              /\ HasBar(s, date)
              /\ RsiBelow(Rsi(s, date), config.oversold_threshold)
           THEN OpenPosition(s)
           ELSE UNCHANGED <<positions, cash>>
    /\ queue' = Tail(queue)
    /\ UNCHANGED <<strategy, dataOrder, data, params, config, trades, portfolio_value,
                   dates, total_value, di, pc>>

\* the date is fully processed
EndOfDate == pc = "entries" /\ queue = <<>>

\* the for loop advances to the next date
NextDate ==
    /\ UNCHANGED notSim
    /\ EndOfDate
    /\ di < Len(all_dates)
    /\ di' = di + 1
    /\ pc' = "mark"
    /\ UNCHANGED <<strategy, dataOrder, data, params, config, cash, positions, trades,
                   portfolio_value, dates, total_value, queue>>

\* line 457 / 550: return results
ReturnResults ==
    /\ UNCHANGED notSim
    /\ EndOfDate
    /\ di = Len(all_dates)
    /\ pc' = "done"
    /\ UNCHANGED <<strategy, dataOrder, data, params, config, cash, positions, trades,
                   portfolio_value, dates, total_value, di, queue>>

-----------------------------------------------------------------------------
(* Initial states of the simulation *)

InitialCapital == 64
\* strategy_templates['mean_reversion']: oversold_threshold, overbought_threshold
OversoldThreshold == 30
OverboughtThreshold == 70
Commissions == {R(0), <<1, 2>>, R(2)}
PositionSizes == {<<1, 4>>, R(1)}
MaxPositions == {1, 2}
HoldingPeriods == {1, 2}

DataOrders == {<<"A">>, <<"A", "B">>, <<"B", "A">>}

\* the momentum loop never reads the rsi column; the mean-reversion bars pair a
\* low close with an oversold rsi and a high close with an overbought or NaN rsi
Bars(strat) ==
    IF strat = "momentum"
    THEN {Bar(c, NaN) : c \in Closes}
    ELSE {Bar(1, OversoldRsi), Bar(2, OverboughtRsi), Bar(2, NaN)}

SimInit ==
    /\ strategy \in {"momentum", "mean_reversion"}
    /\ dataOrder \in DataOrders
    /\ data \in [Symbols -> [Dates -> Bars(strategy) \cup {NoBar}]]
    \* a fetched symbol has at least one bar; "A" trades on every date, "B" may
    \* lack bars on some dates
    /\ \A s \in Symbols :
          IF s \in SeqRange(dataOrder)
          THEN \E d \in Dates : data[s][d].present
          ELSE \A d \in Dates : ~data[s][d].present
    /\ \A d \in Dates : data["A"][d].present
    \* the rsi warm-up (NaN) is drawn for "A" only
    /\ strategy = "mean_reversion" =>
          \A d \in Dates : data["B"][d].present => data["B"][d].rsi # NaN
    /\ params \in [initial_capital : {R(InitialCapital)},
                   commission : Commissions,
                   position_size : PositionSizes,
                   max_positions : MaxPositions]
    /\ config \in [lookback_period : {1},
                   momentum_threshold : {R(0)},
                   holding_period : HoldingPeriods,
                   oversold_threshold : {OversoldThreshold},
                   overbought_threshold : {OverboughtThreshold}]
    /\ cash = params.initial_capital
    /\ positions = <<>>
    /\ trades = <<>>
    /\ portfolio_value = <<>>
    /\ dates = <<>>
    /\ total_value = params.initial_capital
    /\ di = 1
    /\ pc = "mark"
    /\ queue = <<>>

SimNext ==
    \/ UpdatePortfolioValue
    \/ CheckExit
    \/ BeginEntries
    \/ EnterMomentum
    \/ EnterMeanReversion
    \/ NextDate
    \/ ReturnResults

\* the other components are idle while the simulation runs
EnhIdle ==
    /\ signals = <<>>
    /\ parameters = [initial_capital |-> RZero]
    /\ position = 0
    /\ entry_price = RZero
    /\ entry_date = 0
    /\ e_cash = RZero
    /\ e_trades = <<>>
    /\ row = 0
    /\ e_pc = "idle"

NetIdle ==
    /\ symbols = <<>>
    /\ outcome = <<>>
    /\ now = 0
    /\ request_times = <<>>
    /\ admitted = <<>>
    /\ batch_start = 0
    /\ tasks = <<>>
    /\ g_pc = "idle"
    /\ delay_until = 0
    /\ data_dict = <<>>

NoResult == [success |-> "absent", error |-> "none", performance |-> "none",
             validation |-> "none"]
NoValidation == [ran |-> FALSE, data_score |-> 0, data_passed |-> FALSE,
                 calculation_score |-> 0, calculation_passed |-> FALSE,
                 overall_status |-> "none"]

MCIdle ==
    /\ np_random = 0
    /\ mc_seed = -1
    /\ other_uses = 0
    /\ mc_returns = <<>>
    /\ n_simulations = 0
    /\ mc_log = <<>>

DDIdle ==
    /\ equity_curve = <<>>
    /\ max_drawdown = <<>>

NoCalculationValidation == [passed |-> FALSE, score |-> RZero, trade_score |-> RZero,
                            portfolio_score |-> RZero, performance_score |-> RZero]

ValIdle ==
    /\ val_results = <<>>
    /\ corrupted = {}
    /\ calculation_validation = NoCalculationValidation
    /\ val_pc = "idle"

KnownIdle ==
    /\ kp_symbol = ""
    /\ kp_df = <<>>
    /\ kp_score = <<>>
    /\ kp_pc = "idle"

NoOutput == [json |-> FALSE, success |-> "absent", error |-> "none"]

CliIdle ==
    /\ cli_parameters = "absent"
    /\ stdout = NoOutput
    /\ exit_status = -1
    /\ cli_pc = "idle"

ParamsIdle ==
    /\ rp_strategy_name = "none"
    /\ rp_parameters = <<>>
    /\ rp_params = <<>>
    /\ rp_config = <<>>
    /\ rp_used = <<>>
    /\ rp_pc = "idle"

ReportIdle ==
    /\ validation_results = <<>>
    /\ cv_pc = "idle"

WFIdle ==
    /\ data_len = 0
    /\ train_period = 0
    /\ test_period = 0
    /\ step_size = 0
    /\ wf_strategy = "none"
    /\ start_idx = 0
    /\ wf_results = <<>>
    /\ wf_pc = "idle"
    /\ wf_analysis = [total_periods |-> 0]

RunIdle ==
    /\ engine = "none"
    /\ strategy_name = "none"
    /\ r_pc = "idle"
    /\ result = NoResult
    /\ sim_ran = FALSE
    /\ has_trades = FALSE
    /\ validation = NoValidation
    /\ artifacts = {}

SimIdle ==
    /\ strategy = "none"
    /\ dataOrder = <<>>
    /\ data = <<>>
    /\ params = [initial_capital |-> RZero]
    /\ config = <<>>
    /\ cash = RZero
    /\ positions = <<>>
    /\ trades = <<>>
    /\ portfolio_value = <<>>
    /\ dates = <<>>
    /\ total_value = RZero
    /\ di = 0
    /\ pc = "idle"
    /\ queue = <<>>

SimStart == SimInit /\ EnhIdle /\ NetIdle /\ RunIdle /\ WFIdle /\ MCIdle /\ DDIdle /\ ValIdle /\ KnownIdle /\ CliIdle /\ ParamsIdle /\ ReportIdle

SpecSim == SimStart /\ [][SimNext]_vars

-----------------------------------------------------------------------------
(* Claims about the Polygon simulation, checked under SpecSim *)

\* C1 as stated: for every commission >= 0, results['cash'] is never negative.
C1_CashNeverNegative == RLeq(RZero, cash)

\* C1 (amended): with a commission rate in [0, 1] and positive closes,
\* results['cash'] >= 0 after every exit and every entry, in both strategies.
C1_CashNonNegativeCommissionAtMostOne ==
    RLeq(params.commission, ROne) => RLeq(RZero, cash)

\* a run with a positive commission rate of at most 1 that has entered, exited
\* and entered again
C1_Witness ==
    /\ RLt(RZero, params.commission)
    /\ RLeq(params.commission, ROne)
    /\ trades # <<>>
    /\ positions # <<>>

\* C2: once a date is fully processed, the value recorded for it equals the
\* cash then held plus quantity * close over the open positions.
C2_RecordedValueMatchesLedger ==
    (/\ EndOfDate
     /\ \A s \in PosSymbols : HasBar(s, date))
    => portfolio_value[Len(portfolio_value)] = MarkToMarket(cash, positions, date)

\* C3: every recorded trade has
\* pnl = (exit - entry) * quantity - commission * entry * quantity
\*       - commission * exit * quantity.
C3_TradePnlFormula ==
    \A i \in 1..Len(trades) :
        LET t == trades[i]
            q == t.quantity
            c == params.commission
        IN  t.pnl = RSub(RSub(RMul(R(t.exit_price - t.entry_price), q),
                              RMul(RMul(c, R(t.entry_price)), q)),
                         RMul(RMul(c, R(t.exit_price)), q))

\* a trade at a positive commission rate whose exit price differs from its
\* entry price, in each strategy
C3_Witness ==
    /\ RLt(RZero, params.commission)
    /\ \E i \in 1..Len(trades) : trades[i].exit_price # trades[i].entry_price
    /\ Len(trades) >= 2

\* C5: after every simulated date at most max_positions positions are open.
C5_OpenPositionsWithinMax ==
    EndOfDate => Len(positions) <= params.max_positions

\* alphabetical order of the symbols
SymbolRank(s) == IF s = "A" THEN 1 ELSE 2

\* s is ranked before u: larger momentum, or equal momentum and the earlier name
RankedBefore(s, u, d) ==
    \/ RLt(Momentum(u, d), Momentum(s, d))
    \/ Momentum(u, d) = Momentum(s, d) /\ SymbolRank(s) < SymbolRank(u)

\* C19: the momentum entries of a date are taken in descending momentum, equal
\* momentum in alphabetical symbol order, whatever the order of the data:
\* the selected symbols are in that order, and each is ranked before every
\* qualifying symbol that was left out.
C19_EntriesByMomentumThenName ==
    [][(pc = "exits" /\ pc' = "entries" /\ strategy = "momentum"
        /\ Len(positions) < params.max_positions) =>
          /\ \A i, j \in 1..Len(queue') :
                i < j => RankedBefore(queue'[i], queue'[j], date)
          /\ \A s \in SeqRange(queue'), u \in Symbols \ SeqRange(queue') :
                IsCandidate(u, date) => RankedBefore(s, u, date)]_vars

\* C28: a symbol selected for entry on a date has at least `lookback` earlier
\* bars, and its momentum is taken from the bar `lookback` bars before the
\* date, never from a bar dated after it.
C28_MomentumLooksBackOnly ==
    [][(pc = "exits" /\ pc' = "entries" /\ strategy = "momentum") =>
          \A s \in SeqRange(queue') :
              /\ get_loc(s, date) >= config.lookback_period
              /\ LookbackDate(s, date) < date]_vars

-----------------------------------------------------------------------------
(* MomentumStrategy.calculate_signals *)

\* number of rows of the signals frame
MaxBars == 3
EnhPrices == {1, 2, 4}
\* what the RSI and MACD columns of a row allow:
\*   "long"  RSI < 70 and MACD > MACD_Signal
\*   "short" RSI > 30 and MACD < MACD_Signal
Indicators == {"long", "short", "none"}

\* Price.pct_change(lookback) > threshold; NaN (FALSE) on the first lookback rows
MomentumUp(prices, t, lookback, threshold) ==
    /\ t > lookback
    /\ RLt(threshold, RDiv(R(prices[t] - prices[t - lookback]), R(prices[t - lookback])))

\* Price.pct_change(lookback) < -threshold
MomentumDown(prices, t, lookback, threshold) ==
    /\ t > lookback
    /\ RLt(RDiv(R(prices[t] - prices[t - lookback]), R(prices[t - lookback])),
           RSub(RZero, threshold))

\* the Signal column: 0, then 1 on the long rows, then -1 on the short rows
MomentumSignal(prices, inds, t, lookback, threshold) ==
    IF MomentumDown(prices, t, lookback, threshold) /\ inds[t] = "short" THEN -1
    ELSE IF MomentumUp(prices, t, lookback, threshold) /\ inds[t] = "long" THEN 1
    ELSE 0

calculate_signals(prices, inds, lookback, threshold) ==
    [t \in 1..Len(prices) |->
        [Price |-> prices[t],
         Signal |-> MomentumSignal(prices, inds, t, lookback, threshold)]]

-----------------------------------------------------------------------------
(* EnhancedBacktester._execute_trades *)

\* int(x): truncation toward zero
IntOf(x) == IF x[1] >= 0 THEN x[1] \div x[2] ELSE -((-x[1]) \div x[2])

Signal == signals[row].Signal
Price == signals[row].Price

\* price * (1 + slippage) on a buy, price * (1 - slippage) on a sell
execution_price ==
    IF Signal > 0 THEN RMul(R(Price), RAdd(ROne, parameters.slippage))
    ELSE IF Signal < 0 THEN RMul(R(Price), RSub(ROne, parameters.slippage))
    ELSE R(Price)

\* commission = price * shares * parameters['commission']
Commission(price, shares) == RMul(RMul(price, R(shares)), parameters.commission)

\* net_pnl = gross_pnl - commission
NetPnl(gross_pnl, commission) == RSub(gross_pnl, commission)

ClosedTrade(exit_price, exit_date, cash_before) ==
    LET shares == Abs(position)
        gross_pnl == RMul(RSub(exit_price, entry_price), R(shares))
        commission == Commission(exit_price, shares)
        net_pnl == NetPnl(gross_pnl, commission)
    IN  [entry_date |-> entry_date,
         exit_date |-> exit_date,
         entry_price |-> entry_price,
         exit_price |-> exit_price,
         position |-> position,
         shares |-> shares,
         gross_pnl |-> gross_pnl,
         commission |-> commission,
         net_pnl |-> net_pnl,
         return |-> RDiv(net_pnl, RMul(entry_price, R(shares))),
         cash_after |-> RSub(RAdd(cash_before, RMul(exit_price, R(shares))), commission)]

\* lines 207-236: close the open position when the signal differs from it
ClosePosition ==
    /\ UNCHANGED notEnh
    /\ e_pc = "close"
    /\ IF position # 0 /\ Signal # position
       THEN LET t == ClosedTrade(execution_price, row, e_cash)
            IN  /\ e_cash' = t.cash_after
                /\ e_trades' = Append(e_trades, t)
                /\ position' = 0
       ELSE UNCHANGED <<e_cash, e_trades, position>>
    /\ e_pc' = "open"
    /\ UNCHANGED <<signals, parameters, entry_price, entry_date, row>>

\* lines 238-251: open a position on a nonzero signal when flat, then the next row
OpenNewPosition ==
    /\ UNCHANGED notEnh
    /\ e_pc = "open"
    /\ LET position_value == RMul(e_cash, parameters.position_size)
           shares == IntOf(RDiv(position_value, execution_price))
       IN  IF Signal # 0 /\ position = 0 /\ shares > 0
           THEN /\ position' = Signal * shares
                /\ entry_price' = execution_price
                /\ entry_date' = row
                /\ e_cash' = RSub(e_cash, RAdd(RMul(execution_price, R(shares)),
                                              Commission(execution_price, shares)))
           ELSE UNCHANGED <<position, entry_price, entry_date, e_cash>>
    /\ IF row < Len(signals)
       THEN row' = row + 1 /\ e_pc' = "close"
       ELSE row' = row /\ e_pc' = "final"
    /\ UNCHANGED <<signals, parameters, e_trades>>

\* lines 253-278: close the position still open after the last row, and return
CloseFinalPosition ==
    /\ UNCHANGED notEnh
    /\ e_pc = "final"
    /\ IF position # 0
       THEN LET exit_price == RMul(R(signals[Len(signals)].Price),
                                   RSub(ROne, parameters.slippage))
            IN  e_trades' = Append(e_trades, ClosedTrade(exit_price, Len(signals), e_cash))
       ELSE UNCHANGED e_trades
    /\ e_pc' = "done"
    /\ UNCHANGED <<signals, parameters, position, entry_price, entry_date, e_cash, row>>

EnhCommissions == {R(0), <<1, 2>>}
EnhSlippages == {R(0), <<1, 2>>}
EnhPositionSizes == {<<1, 2>>, R(1)}

EnhInit ==
    /\ parameters \in [initial_capital : {R(InitialCapital)},
                       commission : EnhCommissions,
                       slippage : EnhSlippages,
                       position_size : EnhPositionSizes,
                       lookback_period : {1},
                       momentum_threshold : {R(0)}]
    /\ \E n \in 1..MaxBars :
         \E prices \in [1..n -> EnhPrices], inds \in [1..n -> Indicators] :
            signals = calculate_signals(prices, inds, parameters.lookback_period,
                                        parameters.momentum_threshold)
    /\ position = 0
    /\ entry_price = RZero
    /\ entry_date = 0
    /\ e_cash = parameters.initial_capital
    /\ e_trades = <<>>
    /\ row = 1
    /\ e_pc = "close"

EnhNext ==
    \/ ClosePosition
    \/ OpenNewPosition
    \/ CloseFinalPosition

EnhStart == EnhInit /\ SimIdle /\ NetIdle /\ RunIdle /\ WFIdle /\ MCIdle /\ DDIdle /\ ValIdle /\ KnownIdle /\ CliIdle /\ ParamsIdle /\ ReportIdle

SpecEnh == EnhStart /\ [][EnhNext]_vars

\* C4: every recorded trade has
\* net_pnl = (exit_price - entry_price) * shares - entry_commission - exit_commission,
\* the entry commission being the one debited from cash at the open.
C4_NetPnlIncludesBothCommissions ==
    \A i \in 1..Len(e_trades) :
        LET t == e_trades[i]
            entry_commission == Commission(t.entry_price, t.shares)
            exit_commission == Commission(t.exit_price, t.shares)
        IN  t.net_pnl = RSub(RSub(RMul(RSub(t.exit_price, t.entry_price), R(t.shares)),
                                  entry_commission),
                             exit_commission)

\* C18: every recorded trade has exit_date strictly later than entry_date
\* (the forced close of the position open at the last bar included).
C18_ExitAfterEntry ==
    \A i \in 1..Len(e_trades) : e_trades[i].exit_date > e_trades[i].entry_date

\* C24: _execute_trades only ever holds a long or a flat position: position >= 0
\* in every state, so a signal of -1 received while flat opens nothing.
C24_LongOrFlat == position >= 0

\* C26: the running cash of _execute_trades is >= 0 after every entry and
\* every exit, for every position_size in (0, 1], commission >= 0 and
\* slippage >= 0.
C26_EnhancedCashNeverNegative == RLeq(RZero, e_cash)

-----------------------------------------------------------------------------
(* PolygonBacktestingEngine: the rate limiter and the batched fetch *)

\* self.rate_limit, self.rate_window
rate_limit == 5
rate_window == 60
\* batch_size of get_multiple_stocks_data and its asyncio.sleep(1) between batches
batch_size == 3
BatchDelay == 1

\* the clock stops here
MaxTime == 125
\* longest time, in seconds, the data source takes to answer a request
MaxLatency == 1
\* number of symbols of the rate-limit scenario
NumRateSymbols == 12

Min(a, b) == IF a < b THEN a ELSE b

\* [t for t in self.request_times if current_time - t < self.rate_window]
RECURSIVE Prune(_, _)
Prune(q, current_time) ==
    IF q = <<>> THEN <<>>
    ELSE IF current_time - Head(q) < rate_window
         THEN <<Head(q)>> \o Prune(Tail(q), current_time)
         ELSE Prune(Tail(q), current_time)

\* batch = symbols[i:i + batch_size]
Batch == SubSeq(symbols, batch_start + 1, Min(batch_start + batch_size, Len(symbols)))

\* what get_historical_data returns for an answer of the data source: a frame
\* only for status 200, status 'OK', some results and all required columns
FetchResult(answer) == IF answer = "ok" THEN "df" ELSE "None"

\* error_status: an HTTP status other than 200 or a payload status other than 'OK'
Answers == {"ok", "error_status", "no_results", "exception"}

\* lines 199-206: create one get_historical_data task per symbol of the batch
SpawnBatch ==
    /\ UNCHANGED notNet
    /\ \/ g_pc = "spawn"
       \/ g_pc = "delay" /\ now >= delay_until
    /\ tasks' = [k \in 1..Len(Batch) |->
                    [pc |-> "start", symbol |-> Batch[k], wake |-> 0, sent |-> 0,
                     result |-> "pending"]]
    /\ g_pc' = "gather"
    /\ UNCHANGED <<symbols, outcome, now, request_times, admitted, batch_start, delay_until, data_dict>>

\* a task runs from one await to the next:
\*   start      _rate_limit_check up to its sleep, or through to the request
\*   sleeping   after asyncio.sleep(wait_time): record the request, send it
\*   requesting the answer arrives and get_historical_data returns
TaskStep(k) ==
    /\ UNCHANGED notNet
    /\ g_pc = "gather"
    /\ k \in 1..Len(tasks)
    /\ LET t == tasks[k]
           pruned == Prune(request_times, now)
       IN  CASE t.pc = "start" ->
                   IF Len(pruned) >= rate_limit /\ rate_window - (now - pruned[1]) > 0
                   THEN /\ request_times' = pruned
                        /\ tasks' = [tasks EXCEPT ![k].pc = "sleeping",
                                         ![k].wake = now + (rate_window - (now - pruned[1]))]
                        /\ UNCHANGED admitted
                   ELSE /\ request_times' = Append(pruned, now)
                        /\ admitted' = Append(admitted, now)
                        /\ tasks' = [tasks EXCEPT ![k].pc = "requesting", ![k].sent = now]
             [] t.pc = "sleeping" ->
                   /\ now >= t.wake
                   /\ request_times' = Append(request_times, now)
                   /\ admitted' = Append(admitted, now)
                   /\ tasks' = [tasks EXCEPT ![k].pc = "requesting", ![k].sent = now]
             [] t.pc = "requesting" ->
                   /\ tasks' = [tasks EXCEPT ![k].pc = "done",
                                             ![k].result = FetchResult(outcome[t.symbol])]
                   /\ UNCHANGED <<request_times, admitted>>
             [] OTHER -> FALSE
    /\ UNCHANGED <<symbols, outcome, now, batch_start, g_pc, delay_until, data_dict>>

\* a defective result loop that gives up at the first symbol without data
RECURSIVE CollectStopOnFailure(_, _)
CollectStopOnFailure(dd, ts) ==
    IF ts = <<>> THEN dd
    ELSE IF Head(ts).result = "df"
         THEN CollectStopOnFailure(
                  Append(SelectSeq(dd, LAMBDA x : x # Head(ts).symbol), Head(ts).symbol),
                  Tail(ts))
         ELSE dd

\* data_dict after the results of the batch are processed (lines 212-218)
RECURSIVE Collect(_, _)
Collect(dd, ts) ==
    IF ts = <<>> THEN dd
    ELSE IF Head(ts).result = "df"
         THEN Collect(Append(SelectSeq(dd, LAMBDA x : x # Head(ts).symbol), Head(ts).symbol),
                      Tail(ts))
         ELSE Collect(dd, Tail(ts))

\* lines 209-225: gather returns; keep the frames; sleep before the next batch or
\* return data_dict
CollectBatch ==
    /\ UNCHANGED notNet
    /\ g_pc = "gather"
    /\ \A k \in 1..Len(tasks) : tasks[k].pc = "done"
    /\ data_dict' = Collect(data_dict, tasks)
    /\ tasks' = <<>>
    /\ IF batch_start + batch_size < Len(symbols)
       THEN /\ g_pc' = "delay"
            /\ delay_until' = now + BatchDelay
            /\ batch_start' = batch_start + batch_size
       ELSE /\ g_pc' = "returned"
            /\ UNCHANGED <<delay_until, batch_start>>
    /\ UNCHANGED <<symbols, outcome, now, request_times, admitted>>

\* one second passes: nothing is runnable, no sleeper is due and no request has
\* been waiting for MaxLatency
Tick ==
    /\ UNCHANGED notNet
    /\ now < MaxTime
    /\ \/ g_pc = "delay" /\ now < delay_until
       \/ /\ g_pc = "gather"
          /\ \E k \in 1..Len(tasks) : tasks[k].pc # "done"
          /\ \A k \in 1..Len(tasks) :
                /\ tasks[k].pc # "start"
                /\ tasks[k].pc = "sleeping" => now < tasks[k].wake
                /\ tasks[k].pc = "requesting" => now - tasks[k].sent < MaxLatency
    /\ now' = now + 1
    /\ UNCHANGED <<symbols, outcome, request_times, admitted, batch_start, tasks, g_pc, delay_until,
                   data_dict>>

\* twelve symbols, all answered with data, on a fresh engine
RateInit ==
    /\ symbols = [k \in 1..NumRateSymbols |-> k]
    /\ outcome = [k \in 1..NumRateSymbols |-> "ok"]
    /\ now = 0
    /\ request_times = <<>>
    /\ admitted = <<>>
    /\ batch_start = 0
    /\ tasks = <<>>
    /\ g_pc = "spawn"
    /\ delay_until = 0
    /\ data_dict = <<>>

RateStart == RateInit /\ SimIdle /\ EnhIdle /\ RunIdle /\ WFIdle /\ MCIdle /\ DDIdle /\ ValIdle /\ KnownIdle /\ CliIdle /\ ParamsIdle /\ ReportIdle

RateNext ==
    \/ SpawnBatch
    \/ \E k \in 1..batch_size : TaskStep(k)
    \/ CollectBatch
    \/ Tick

SpecRate == RateStart /\ [][RateNext]_vars

\* C6: in every 60-second window at most rate_limit (5) requests are admitted.
C6_AtMostRateLimitPerWindow ==
    \A a \in 1..Len(admitted) :
        Cardinality({b \in 1..Len(admitted) :
                        admitted[a] <= admitted[b] /\ admitted[b] < admitted[a] + rate_window})
            <= rate_limit

-----------------------------------------------------------------------------
(* One call of PolygonBacktestingEngine.run_backtest or of                 *)
(* EnhancedBacktester.run_enhanced_backtest.  The simulation is the one of *)
(* SpecSim and SpecEnh; here only whether it produced trades matters.      *)

\* most symbols passed to one call
MaxSymbols == 4

\* self.thresholds of BacktestValidator, in percent
DataQualityThreshold == 70
CalculationAccuracyThreshold == 60

\* validation scores, in percent
Scores == {50, 65, 100}

\* self.strategy_templates / self.strategies
KnownStrategies == {"momentum", "mean_reversion"}
StrategyNames == KnownStrategies \cup {"unknown"}

\* what a write to disk does
IoOutcomes == {"ok", "raises"}

\* a defective status that looks at the data validation only
OverallStatusDataOnly(data_passed, calculation_passed) ==
    IF data_passed THEN "PASSED" ELSE "FAILED"

\* all(result.passed for ... if hasattr(result, 'passed')): the two ValidationResults
overall_status(data_passed, calculation_passed) ==
    IF data_passed /\ calculation_passed THEN "PASSED" ELSE "FAILED"

\* _calculate_performance_metrics
performance == IF has_trades THEN "metrics" ELSE "error"

Failure(msg) == [success |-> "False", error |-> msg, performance |-> "none",
                 validation |-> "none"]
\* the dictionaries of run_enhanced_backtest that carry only 'error'
ErrorOnly(msg) == [success |-> "absent", error |-> msg, performance |-> "none",
                   validation |-> "none"]

\* lines 306-309: data = await get_multiple_stocks_data(...); if not data: return
CheckData ==
    /\ UNCHANGED notRun
    /\ engine = "polygon"
    /\ r_pc = "fetch"
    /\ g_pc = "returned"
    /\ IF data_dict = <<>>
       THEN /\ result' = Failure("Failed to fetch data from Polygon.io")
            /\ r_pc' = "returned"
       ELSE /\ r_pc' = "strategy"
            /\ UNCHANGED result
    /\ UNCHANGED <<engine, strategy_name, sim_ran, has_trades, validation, artifacts>>

\* lines 311-327: features, the strategy dispatch and its simulation
RunStrategy ==
    /\ UNCHANGED notRun
    /\ engine = "polygon"
    /\ r_pc = "strategy"
    /\ IF strategy_name \in KnownStrategies
       THEN /\ sim_ran' = TRUE
            /\ has_trades' \in BOOLEAN
            /\ r_pc' = "validate"
            /\ UNCHANGED result
       ELSE /\ result' = Failure("Unknown strategy")
            /\ r_pc' = "returned"
            /\ UNCHANGED <<sim_ran, has_trades>>
    /\ UNCHANGED <<engine, strategy_name, validation, artifacts>>

\* lines 330-331 and BacktestValidator.run_comprehensive_validation: the two
\* validations, the report, and the report file
Validate ==
    /\ UNCHANGED notRun
    /\ engine = "polygon"
    /\ r_pc = "validate"
    /\ \E ds \in Scores, cs \in Scores, io \in IoOutcomes :
          LET calculation_score == IF has_trades THEN cs ELSE 0
              data_passed == ds >= DataQualityThreshold
              calculation_passed ==
                  has_trades /\ calculation_score >= CalculationAccuracyThreshold
          IN  /\ validation' = [ran |-> TRUE, data_score |-> ds, data_passed |-> data_passed,
                                calculation_score |-> calculation_score,
                                calculation_passed |-> calculation_passed,
                                overall_status |->
                                    overall_status(data_passed, calculation_passed)]
              /\ IF io = "ok"
                 THEN /\ artifacts' = artifacts \cup {"validation_report"}
                      /\ r_pc' = "save"
                 ELSE /\ r_pc' = "raised"
                      /\ UNCHANGED artifacts
    /\ UNCHANGED <<engine, strategy_name, result, sim_ran, has_trades>>

\* lines 333-349 and _save_backtest_results: write the experiment, return
SaveResults ==
    /\ UNCHANGED notRun
    /\ engine = "polygon"
    /\ r_pc = "save"
    /\ \E io \in IoOutcomes :
          IF io = "ok"
          THEN /\ artifacts' = artifacts \cup {"results.json", "performance.json",
                                               "reports.json", "validation.json"}
               /\ result' = [success |-> "True", error |-> "none",
                             performance |-> performance,
                             validation |-> validation.overall_status]
               /\ r_pc' = "returned"
          ELSE /\ r_pc' = "raised"
               /\ UNCHANGED <<artifacts, result>>
    /\ UNCHANGED <<engine, strategy_name, sim_ran, has_trades, validation>>

\* run_enhanced_backtest lines 108-110: get_clean_data
EnhGetData ==
    /\ UNCHANGED notRun
    /\ engine = "enhanced"
    /\ r_pc = "fetch"
    /\ \E d \in {"data", "empty", "raises"} :
          CASE d = "data"   -> r_pc' = "strategy" /\ UNCHANGED result
            [] d = "empty"  -> /\ result' = ErrorOnly("No data available for backtesting")
                               /\ r_pc' = "returned"
            [] d = "raises" -> /\ result' = ErrorOnly("str(e)")
                               /\ r_pc' = "returned"
    /\ UNCHANGED <<engine, strategy_name, sim_ran, has_trades, validation, artifacts>>

\* run_enhanced_backtest lines 121-181: the strategy lookup, the per-symbol
\* simulation, the analysis and the report, inside try/except
EnhRunStrategy ==
    /\ UNCHANGED notRun
    /\ engine = "enhanced"
    /\ r_pc = "strategy"
    /\ IF strategy_name \in KnownStrategies
       THEN \E run \in IoOutcomes :
               /\ sim_ran' = TRUE
               /\ r_pc' = "returned"
               /\ IF run = "ok"
                  THEN /\ has_trades' \in BOOLEAN
                       /\ result' = [success |-> "True", error |-> "none",
                                     performance |-> "metrics", validation |-> "none"]
                  ELSE /\ result' = ErrorOnly("str(e)")
                       /\ UNCHANGED has_trades
       ELSE /\ result' = ErrorOnly("Strategy not found")
            /\ r_pc' = "returned"
            /\ UNCHANGED <<sim_ran, has_trades>>
    /\ UNCHANGED <<engine, strategy_name, validation, artifacts>>

RunInit ==
    /\ engine \in {"polygon", "enhanced"}
    /\ strategy_name \in StrategyNames
    /\ r_pc = "fetch"
    /\ result = NoResult
    /\ sim_ran = FALSE
    /\ has_trades = FALSE
    /\ validation = NoValidation
    /\ artifacts = {}
    /\ IF engine = "polygon"
       THEN /\ \E n \in 0..MaxSymbols :
                  /\ symbols = [k \in 1..n |-> k]
                  /\ outcome \in [1..n -> Answers]
            /\ now = 0
            /\ request_times = <<>>
            /\ admitted = <<>>
            /\ batch_start = 0
            /\ tasks = <<>>
            /\ g_pc = "spawn"
            /\ delay_until = 0
            /\ data_dict = <<>>
       ELSE NetIdle

RunStart == RunInit /\ SimIdle /\ EnhIdle /\ WFIdle /\ MCIdle /\ DDIdle /\ ValIdle /\ KnownIdle /\ CliIdle /\ ParamsIdle /\ ReportIdle

RunNext ==
    \/ SpawnBatch
    \/ \E k \in 1..batch_size : TaskStep(k)
    \/ CollectBatch
    \/ Tick
    \/ CheckData
    \/ RunStrategy
    \/ Validate
    \/ SaveResults
    \/ EnhGetData
    \/ EnhRunStrategy

SpecRun == RunStart /\ [][RunNext]_vars

\* the symbols whose fetch succeeded, in the order of the argument
Succeeded == SelectSeq(symbols, LAMBDA x : outcome[x] = "ok")

Finished == r_pc \in {"returned", "raised"}

\* C7: get_multiple_stocks_data returns exactly the symbols whose fetch succeeded,
\* whatever the other symbols did, in every batch; and with at least one such
\* symbol run_backtest goes on to the strategy (and runs a known one).
C7_ReturnsExactlySucceededSymbols ==
    /\ g_pc = "returned" => data_dict = Succeeded
    /\ (engine = "polygon" /\ r_pc # "fetch" /\ Succeeded # <<>>) =>
          /\ result.error # "Failed to fetch data from Polygon.io"
          /\ (Finished /\ strategy_name \in KnownStrategies) => sim_ran

C7_Witness ==
    /\ engine = "polygon"
    /\ r_pc = "returned"
    /\ sim_ran
    /\ Len(symbols) > batch_size
    /\ Len(data_dict) = 2
    /\ outcome[1] = "exception"
    /\ outcome[2] = "ok"
    /\ outcome[3] = "error_status"
    /\ outcome[4] = "ok"

\* C8: a run that ends in a fatal outcome (unknown strategy, no data, exception)
\* ends by returning success == False with an error message, having produced no
\* simulation results, no validation report and no artifacts.
C8_FatalOutcomeReturnedAsFailure ==
    (Finished /\ ~(r_pc = "returned" /\ result.success = "True")) =>
        /\ r_pc = "returned"
        /\ result.success = "False"
        /\ result.error # "none"
        /\ ~sim_ran
        /\ ~validation.ran
        /\ artifacts = {}

\* C9: a polygon run whose validation ran and that returns, returns success == True
\* with the performance and the validation report, and the report's overall_status
\* is FAILED exactly when a category ValidationResult has passed == False.
C9_ValidationFailureIsNotFatal ==
    /\ validation.ran =>
          (validation.overall_status = "FAILED"
              <=> (~validation.data_passed \/ ~validation.calculation_passed))
    /\ validation.ran => validation.overall_status \in {"PASSED", "FAILED"}
    /\ (validation.ran /\ r_pc = "returned") =>
          /\ result.success = "True"
          /\ result.performance # "none"
          /\ result.validation = validation.overall_status

C9_Witness ==
    /\ r_pc = "returned"
    /\ validation.ran
    /\ validation.data_passed
    /\ ~validation.calculation_passed
    /\ has_trades
    /\ result.success = "True"
    /\ result.validation = "FAILED"

-----------------------------------------------------------------------------
(* WalkForwardAnalyzer.run_walk_forward *)

\* longest data, longest train and test periods, largest step
MaxDataLen == 8
MaxPeriod == 3
MaxStep == 3

\* the empty dictionary returned for no results and on an exception
EmptyAnalysis == [total_periods |-> 0]

\* "trainable": an object with train() and backtest()
\* "registry":  MomentumStrategy or MeanReversionStrategy, which have neither
WFStrategies == {"trainable", "registry"}

\* range(0, len(data) - self.train_period - self.test_period, self.step_size)
InRange(idx) == idx < data_len - train_period - test_period

\* a defective window whose test slice starts one row before the train slice ends
WindowTestOverlapsTrain(idx) ==
    [train_start |-> idx,
     train_end   |-> idx + train_period,
     test_start  |-> idx + train_period - 1,
     test_end    |-> idx + train_period - 1 + test_period]

\* the window that starts at idx
Window(idx) == [train_start |-> idx,
                train_end   |-> idx + train_period,
                test_start  |-> idx + train_period,
                test_end    |-> idx + train_period + test_period]

\* one iteration of the loop; strategy.train raises AttributeError for a strategy
\* without it, and the except clause returns {}
EvaluateWindow ==
    /\ UNCHANGED notWF
    /\ wf_pc = "loop"
    /\ InRange(start_idx)
    /\ IF wf_strategy = "trainable"
       THEN /\ wf_results' = Append(wf_results, Window(start_idx))
            /\ start_idx' = start_idx + step_size
            /\ UNCHANGED <<wf_pc, wf_analysis>>
       ELSE /\ wf_pc' = "returned"
            /\ wf_analysis' = EmptyAnalysis
            /\ UNCHANGED <<wf_results, start_idx>>
    /\ UNCHANGED <<data_len, train_period, test_period, step_size, wf_strategy>>

\* the range is exhausted: return self._analyze_walk_forward_results(results)
AnalyzeWalkForward ==
    /\ UNCHANGED notWF
    /\ wf_pc = "loop"
    /\ ~InRange(start_idx)
    /\ wf_analysis' = IF wf_results = <<>> THEN EmptyAnalysis
                      ELSE [total_periods |-> Len(wf_results)]
    /\ wf_pc' = "returned"
    /\ UNCHANGED <<data_len, train_period, test_period, step_size, wf_strategy, start_idx,
                   wf_results>>

WFInit ==
    /\ data_len \in 0..MaxDataLen
    /\ train_period \in 1..MaxPeriod
    /\ test_period \in 1..MaxPeriod
    /\ step_size \in 1..MaxStep
    /\ wf_strategy \in WFStrategies
    /\ start_idx = 0
    /\ wf_results = <<>>
    /\ wf_pc = "loop"
    /\ wf_analysis = EmptyAnalysis

WFStart == WFInit /\ SimIdle /\ EnhIdle /\ NetIdle /\ RunIdle /\ MCIdle /\ DDIdle /\ ValIdle /\ KnownIdle /\ CliIdle /\ ParamsIdle /\ ReportIdle

WFNext ==
    \/ EvaluateWindow
    \/ AnalyzeWalkForward

SpecWF == WFStart /\ [][WFNext]_vars

\* C10: with len(data) >= train_period + test_period, a finished walk-forward has
\* evaluated exactly floor((len(data) - train_period - test_period) / step_size) + 1
\* windows.
C10_WindowCount ==
    (wf_pc = "returned" /\ data_len >= train_period + test_period) =>
        Len(wf_results) = ((data_len - train_period - test_period) \div step_size) + 1

\* the rows of the half-open slice data.iloc[a:b]
Rows(a, b) == {r \in 0..(data_len - 1) : a <= r /\ r < b}

\* C11: in every evaluated window the train rows [start, start + train_period) and
\* the test rows [start + train_period, start + train_period + test_period) are
\* disjoint, the test range begins where the train range ends, and the test range
\* ends at or before the end of the data.
C11_TrainAndTestRangesDisjoint ==
    \A w \in 1..Len(wf_results) :
        LET win == wf_results[w]
        IN  /\ win.train_end = win.train_start + train_period
            /\ win.test_start = win.train_end
            /\ win.test_end = win.test_start + test_period
            /\ win.test_end <= data_len
            /\ Rows(win.train_start, win.train_end)
                   \cap Rows(win.test_start, win.test_end) = {}
            /\ Cardinality(Rows(win.train_start, win.train_end)) = train_period
            /\ Cardinality(Rows(win.test_start, win.test_end)) = test_period

C11_Witness ==
    /\ wf_pc = "returned"
    /\ Len(wf_results) >= 2
    /\ train_period >= 2
    /\ test_period >= 2
    /\ wf_results[2].train_start < wf_results[1].test_end

-----------------------------------------------------------------------------
(* Drawdown of a series, as the three implementations compute it *)

RMax(x, y) == IF RLeq(x, y) THEN y ELSE x
RMin(x, y) == IF RLeq(x, y) THEN x ELSE y

RECURSIVE RMaxSeq(_)
RMaxSeq(q) == IF Len(q) = 1 THEN q[1] ELSE RMax(Head(q), RMaxSeq(Tail(q)))
RECURSIVE RMinSeq(_)
RMinSeq(q) == IF Len(q) = 1 THEN q[1] ELSE RMin(Head(q), RMinSeq(Tail(q)))
RECURSIVE RSumSeq(_)
RSumSeq(q) == IF q = <<>> THEN RZero ELSE RAdd(Head(q), RSumSeq(Tail(q)))

\* (1 + returns).cumprod(), the argument being the factors 1 + r
RECURSIVE CumProd(_)
CumProd(factors) ==
    IF factors = <<>> THEN <<>>
    ELSE LET before == CumProd(SubSeq(factors, 1, Len(factors) - 1))
         IN  Append(before,
                    IF before = <<>> THEN factors[1]
                    ELSE RMul(before[Len(before)], factors[Len(factors)]))

\* series.expanding().max()
ExpandingMax(series) == [t \in 1..Len(series) |-> RMaxSeq(SubSeq(series, 1, t))]

\* ((series - running_max) / running_max).min()
DrawdownMin(series) ==
    LET running_max == ExpandingMax(series)
    IN  RMinSeq([t \in 1..Len(series) |->
                    RDiv(RSub(series[t], running_max[t]), running_max[t])])

\* MonteCarloSimulator._calculate_max_drawdown(portfolio_values)
MonteCarloMaxDrawdown(portfolio_values) == DrawdownMin(portfolio_values)

-----------------------------------------------------------------------------
(* MonteCarloSimulator.run_monte_carlo *)

\* most simulations, longest returns series, most runs, most foreign draws
MaxSimulations == 2
MaxReturns == 2
MaxRuns == 2
MaxOtherUses == 1
\* seeds a caller may pass to np.random.seed
MaxSeed == 1

\* the generator behind returns.sample(): a congruential generator stands for
\* numpy's Mersenne Twister; every draw advances the one global state
RngModulus == 16
RngMultiplier == 5
RngIncrement == 3
NextState(g) == (RngMultiplier * g + RngIncrement) % RngModulus
\* the row selected by a state, out of n rows
RowOf(g, n) == ((g \div 4) % n) + 1

\* returns.sample(n = len(returns), replace = True): k draws from state g
RECURSIVE Sample(_, _, _)
Sample(g, k, n) ==
    IF k = 0 THEN [rows |-> <<>>, state |-> g]
    ELSE LET g1 == NextState(g)
             rest == Sample(g1, k - 1, n)
         IN  [rows |-> <<RowOf(g1, n)>> \o rest.rows, state |-> rest.state]

\* the factors 1 + r of the returns a run may be given: r = -1/2, 0, 1
ReturnFactors == {<<1, 2>>, R(1), R(2)}

\* lines 343-358: one simulation from generator state g
Simulation(g, sim) ==
    LET drawn == Sample(g, Len(mc_returns), Len(mc_returns))
        bootstrapped_returns == [k \in 1..Len(mc_returns) |-> mc_returns[drawn.rows[k]]]
        cumulative_returns == CumProd(bootstrapped_returns)
        portfolio_values == [k \in 1..Len(mc_returns) |->
                                RMul(R(InitialCapital), cumulative_returns[k])]
        final_value == portfolio_values[Len(portfolio_values)]
    IN  [result |-> [simulation |-> sim,
                     final_value |-> final_value,
                     total_return |-> RDiv(RSub(final_value, R(InitialCapital)),
                                           R(InitialCapital)),
                     max_drawdown |-> MonteCarloMaxDrawdown(portfolio_values)],
         state |-> drawn.state]

\* lines 339-358: the simulations sim .. n_simulations - 1 from generator state g
RECURSIVE Simulations(_, _)
Simulations(g, sim) ==
    IF sim >= n_simulations THEN [results |-> <<>>, state |-> g]
    ELSE LET one == Simulation(g, sim)
             rest == Simulations(one.state, sim + 1)
         IN  [results |-> <<one.result>> \o rest.results, state |-> rest.state]

Column(results, field) == [k \in 1..Len(results) |-> results[k][field]]

\* _analyze_monte_carlo_results, without the standard deviations and percentiles
analyze_monte_carlo_results(results) ==
    LET total_returns == Column(results, "total_return")
        max_drawdowns == Column(results, "max_drawdown")
        final_values == Column(results, "final_value")
        n == Len(results)
    IN  [n_simulations |-> n,
         avg_total_return |-> RDiv(RSumSeq(total_returns), R(n)),
         min_total_return |-> RMinSeq(total_returns),
         max_total_return |-> RMaxSeq(total_returns),
         avg_max_drawdown |-> RDiv(RSumSeq(max_drawdowns), R(n)),
         min_max_drawdown |-> RMinSeq(max_drawdowns),
         max_max_drawdown |-> RMaxSeq(max_drawdowns),
         avg_final_value |-> RDiv(RSumSeq(final_values), R(n)),
         min_final_value |-> RMinSeq(final_values),
         max_final_value |-> RMaxSeq(final_values),
         positive_simulations |->
             Cardinality({k \in 1..n : RLt(RZero, total_returns[k])}),
         negative_simulations |->
             Cardinality({k \in 1..n : RLt(total_returns[k], RZero)})]

\* np.random.seed(s), by the caller of the simulator or by any other code
SeedGenerator ==
    /\ UNCHANGED notMC
    /\ Len(mc_log) < MaxRuns
    /\ \E s \in 0..MaxSeed :
          /\ np_random' = s
          /\ mc_seed' = s
    /\ other_uses' = 0
    /\ UNCHANGED <<mc_returns, n_simulations, mc_log>>

\* any other draw from the global generator (np.random.normal, another sample, ...)
OtherRandomUse ==
    /\ UNCHANGED notMC
    /\ Len(mc_log) < MaxRuns
    /\ other_uses < MaxOtherUses
    /\ np_random' = NextState(np_random)
    /\ other_uses' = other_uses + 1
    /\ UNCHANGED <<mc_seed, mc_returns, n_simulations, mc_log>>

\* run_monte_carlo(returns, initial_capital): it takes no seed and draws from the
\* global generator
RunMonteCarlo ==
    /\ UNCHANGED notMC
    /\ Len(mc_log) < MaxRuns
    /\ LET run == Simulations(np_random, 0)
       IN  /\ np_random' = run.state
           /\ mc_log' = Append(mc_log, [seed |-> mc_seed,
                                        analysis |-> analyze_monte_carlo_results(run.results)])
    \* a later run counts as seeded only if the generator is seeded again
    /\ mc_seed' = -1
    /\ other_uses' = 0
    /\ UNCHANGED <<mc_returns, n_simulations>>

MCInit ==
    /\ np_random \in 0..(RngModulus - 1)
    /\ mc_seed = -1
    /\ other_uses = 0
    /\ \E n \in 1..MaxReturns : mc_returns \in [1..n -> ReturnFactors]
    /\ n_simulations \in 1..MaxSimulations
    /\ mc_log = <<>>

MCStart == MCInit /\ SimIdle /\ EnhIdle /\ NetIdle /\ RunIdle /\ WFIdle /\ DDIdle /\ ValIdle /\ KnownIdle /\ CliIdle /\ ParamsIdle /\ ReportIdle

MCNext ==
    \/ SeedGenerator
    \/ OtherRandomUse
    \/ RunMonteCarlo

SpecMC == MCStart /\ [][MCNext]_vars

\* C12: two runs, each made after seeding the generator with the same seed (same
\* returns, capital and n_simulations), return identical aggregate statistics,
\* whatever else drew random numbers between the seeding and the run.
C12_SameSeedSameStatistics ==
    \A a, b \in 1..Len(mc_log) :
        (mc_log[a].seed = mc_log[b].seed /\ mc_log[a].seed >= 0)
            => mc_log[a].analysis = mc_log[b].analysis

-----------------------------------------------------------------------------
(* max_drawdown of the same equity curve by the three implementations *)

\* longest equity curve, and the values of its points
MaxCurveLen == 4
CurveValues == {1, 2, 4}

\* 1 + series.pct_change().dropna(): V_t / V_(t-1) for every point but the first
PeriodFactors(curve) == [t \in 1..(Len(curve) - 1) |-> RDiv(curve[t + 1], curve[t])]

\* PerformanceAnalytics._calculate_max_drawdown(returns), the argument being the
\* factors 1 + r
AnalyticsMaxDrawdown(factors) == DrawdownMin(CumProd(factors))

\* _calculate_performance_metrics lines 576-585, from results['portfolio_value']
PolygonMaxDrawdown(curve) == DrawdownMin(CumProd(PeriodFactors(curve)))

ComputeMaxDrawdown ==
    /\ UNCHANGED notDD
    /\ max_drawdown = <<>>
    /\ max_drawdown' = [polygon     |-> PolygonMaxDrawdown(equity_curve),
                        analytics   |-> AnalyticsMaxDrawdown(PeriodFactors(equity_curve)),
                        monte_carlo |-> MonteCarloMaxDrawdown(equity_curve)]
    /\ UNCHANGED equity_curve

DDInit ==
    /\ \E n \in 2..MaxCurveLen :
          equity_curve \in [1..n -> {R(v) : v \in CurveValues}]
    /\ max_drawdown = <<>>

DDStart == DDInit /\ SimIdle /\ EnhIdle /\ NetIdle /\ RunIdle /\ WFIdle /\ MCIdle /\ ValIdle /\ KnownIdle /\ CliIdle /\ ParamsIdle /\ ReportIdle

DDNext == ComputeMaxDrawdown

SpecDD == DDStart /\ [][DDNext]_vars

\* C13: for every equity curve the three implementations return the same
\* max_drawdown, also when the largest decline starts at the first point.
C13_MaxDrawdownSameEverywhere ==
    max_drawdown # <<>> =>
        /\ max_drawdown.polygon = max_drawdown.monte_carlo
        /\ max_drawdown.analytics = max_drawdown.monte_carlo

-----------------------------------------------------------------------------
(* BacktestValidator.validate_calculations *)

\* most trades in the results given to the validator
MaxTrades == 3

\* the commission rate 0.001 and the tolerance 0.05 written in the validator
ValidatorCommission == <<1, 1000>>
Tolerance == <<1, 20>>

RAbs(x) == <<Abs(x[1]), x[2]>>

\* lines 399-401: the P&L the validator expects of a trade
expected_pnl(trade) ==
    LET entry_cost == RMul(RMul(trade.entry_price, trade.quantity),
                           RAdd(ROne, ValidatorCommission))
        exit_value == RMul(RMul(trade.exit_price, trade.quantity),
                           RSub(ROne, ValidatorCommission))
    IN  RSub(exit_value, entry_cost)

\* abs(expected - actual) / abs(expected) if expected != 0 else 0
RelativeError(expected, actual) ==
    IF expected # RZero THEN RDiv(RAbs(RSub(expected, actual)), RAbs(expected)) ELSE RZero

\* lines 397-408: the trade counts as correct
TradeCorrect(trade) == RLeq(RelativeError(expected_pnl(trade), trade.pnl), Tolerance)

Fraction(count, total) == IF total > 0 THEN RDiv(R(count), R(total)) ELSE RZero

\* _validate_trade_calculations(trades)['score']
validate_trade_calculations(ts) ==
    IF ts = <<>> THEN RZero
    ELSE Fraction(Cardinality({k \in 1..Len(ts) : TradeCorrect(ts[k])}), Len(ts))

\* lines 430-436: [initial_capital] followed by the running sum of the trades' pnl
calculated_values(ts, initial_capital) ==
    [k \in 1..(Len(ts) + 1) |->
        RAdd(initial_capital, RSumSeq([j \in 1..(k - 1) |-> ts[j].pnl]))]

\* _validate_portfolio_calculations(trades, portfolio_values, initial_capital)['score']
validate_portfolio_calculations(ts, portfolio_values, initial_capital) ==
    IF portfolio_values = <<>> THEN RZero
    ELSE LET calculated == calculated_values(ts, initial_capital)
             min_length == Min(Len(calculated), Len(portfolio_values))
             correct_values ==
                 {k \in 1..min_length :
                     RLeq(RDiv(RAbs(RSub(calculated[k], portfolio_values[k])),
                               portfolio_values[k]),
                          Tolerance)}
         IN  Fraction(Cardinality(correct_values), min_length)

\* backtest_results.get('performance', {}) and its .get(name, 0)
NoPerformance == [total_trades |-> 0, winning_trades |-> 0, total_pnl |-> RZero]
PerformanceOf(backtest_results) ==
    IF "performance" \in DOMAIN backtest_results
    THEN backtest_results.performance ELSE NoPerformance

Winning(ts) == Cardinality({k \in 1..Len(ts) : RLt(RZero, ts[k].pnl)})
TotalPnl(ts) == RSumSeq([k \in 1..Len(ts) |-> ts[k].pnl])

\* _validate_performance_metrics(backtest_results)['score']
validate_performance_metrics(backtest_results) ==
    LET perf == PerformanceOf(backtest_results)
        ts == backtest_results.trades
        checks == <<Len(ts) = perf.total_trades,
                    Winning(ts) = perf.winning_trades,
                    RLeq(RelativeError(TotalPnl(ts), perf.total_pnl), Tolerance)>>
    IN  IF ts = <<>> THEN RZero
        ELSE Fraction(Cardinality({k \in 1..Len(checks) : checks[k]}), Len(checks))

\* thresholds['calculation_accuracy'] as a fraction
CalculationAccuracy == <<CalculationAccuracyThreshold, 100>>

\* passed = overall_score >= self.thresholds['calculation_accuracy']
Passed(score) == RLeq(Norm(CalculationAccuracy[1], CalculationAccuracy[2]), score)

\* validate_calculations(backtest_results)
validate_calculations(backtest_results) ==
    LET ts == backtest_results.trades
        portfolio_values == backtest_results.portfolio_value
        initial_capital == IF portfolio_values = <<>> THEN R(100000)
                           ELSE portfolio_values[1]
        trade_score == validate_trade_calculations(ts)
        portfolio_score ==
            validate_portfolio_calculations(ts, portfolio_values, initial_capital)
        performance_score == validate_performance_metrics(backtest_results)
        overall_score ==
            RDiv(RAdd(RAdd(trade_score, portfolio_score), performance_score), R(3))
    IN  IF ts = <<>> THEN NoCalculationValidation
        ELSE [passed |-> Passed(overall_score),
              score |-> overall_score,
              trade_score |-> trade_score,
              portfolio_score |-> portfolio_score,
              performance_score |-> performance_score]

ValidateCalculations ==
    /\ UNCHANGED notVal
    /\ val_pc = "ready"
    /\ calculation_validation' = validate_calculations(val_results)
    /\ val_pc' = "done"
    /\ UNCHANGED <<val_results, corrupted>>

\* results whose trades carry the P&L the validator expects, except the altered ones
TradePrices == {R(1), R(2)}
TradeQuantity == R(8)
\* what is added to the pnl of an altered trade
Alteration == R(10)

GivenTrade(entry, exit, altered) ==
    LET t == [entry_price |-> entry, exit_price |-> exit, quantity |-> TradeQuantity]
    IN  [entry_price |-> entry, exit_price |-> exit, quantity |-> TradeQuantity,
         pnl |-> IF altered THEN RAdd(expected_pnl(t), Alteration) ELSE expected_pnl(t)]

\* the performance dictionary computed from the trades of the results
PerformanceFrom(ts) ==
    [total_trades |-> Len(ts), winning_trades |-> Winning(ts), total_pnl |-> TotalPnl(ts)]

ValInit ==
    /\ \E n \in 1..MaxTrades :
         \E entry \in [1..n -> TradePrices], exit \in [1..n -> TradePrices],
            altered \in SUBSET (1..n) :
            LET ts == [k \in 1..n |-> GivenTrade(entry[k], exit[k], k \in altered)]
                true_ts == [k \in 1..n |-> GivenTrade(entry[k], exit[k], FALSE)]
            IN  /\ corrupted = altered
                /\ \E books \in {ts, true_ts} :
                      val_results = [trades |-> ts,
                                     portfolio_value |->
                                         calculated_values(books, R(InitialCapital)),
                                     performance |-> PerformanceFrom(ts)]
    /\ calculation_validation = NoCalculationValidation
    /\ val_pc = "ready"

ValStart == ValInit /\ SimIdle /\ EnhIdle /\ NetIdle /\ RunIdle /\ WFIdle /\ MCIdle /\ DDIdle /\ KnownIdle /\ CliIdle /\ ParamsIdle /\ ReportIdle

ValNext == ValidateCalculations

SpecVal == ValStart /\ [][ValNext]_vars

\* C14: when the pnl of at least one trade was altered beyond the tolerance,
\* validate_calculations returns passed == False and a score below
\* thresholds['calculation_accuracy'].
C14_AlteredTradeFailsValidation ==
    (val_pc = "done" /\ corrupted # {}) =>
        /\ ~calculation_validation.passed
        /\ RLt(calculation_validation.score, CalculationAccuracy)

-----------------------------------------------------------------------------
(* run_backtest: the results of the simulation given to the validator *)

\* line 331 and run_comprehensive_validation line 520: validate_calculations gets
\* the results dictionary of the strategy, which has no 'performance' entry
\* (closes are integers in the simulation and fractions in the validator)
PassResultsToValidator ==
    /\ UNCHANGED notSimVal
    /\ pc = "done"
    /\ val_pc = "idle"
    /\ val_results' =
          [trades |-> [k \in 1..Len(trades) |->
                          [trades[k] EXCEPT !.entry_price = R(@), !.exit_price = R(@)]],
           portfolio_value |-> portfolio_value]
    /\ val_pc' = "ready"
    /\ UNCHANGED <<simVars, corrupted, calculation_validation>>

SimValStart == SimStart

SimValNext ==
    \/ SimNext
    \/ PassResultsToValidator
    \/ ValidateCalculations

SpecSimVal == SimValStart /\ [][SimValNext]_vars

\* C15: validate_calculations on the unaltered results of the engine's own
\* simulation, with at least one trade, returns score 1.0 and passed True.
C15_OwnResultsScoreOne ==
    (val_pc = "done" /\ pc = "done" /\ trades # <<>>) =>
        /\ calculation_validation.score = ROne
        /\ calculation_validation.passed

-----------------------------------------------------------------------------
(* BacktestValidator._validate_known_data_points (backtest_validator.py) *)

\* self.validation_data: the known good data points
validation_data ==
    [s \in {"AAPL", "MSFT"} |->
        IF s = "AAPL"
        THEN [d \in {"2021-01-04", "2021-12-31", "2022-01-03"} |->
                CASE d = "2021-01-04" ->
                        [open |-> Norm(13352, 100), close |-> Norm(12941, 100), volume |-> R(1433019)]
                  [] d = "2021-12-31" ->
                        [open |-> Norm(17809, 100), close |-> Norm(17757, 100), volume |-> R(1051585)]
                  [] OTHER ->
                        [open |-> Norm(17783, 100), close |-> Norm(18201, 100), volume |-> R(1044879)]]
        ELSE [d \in {"2021-01-04", "2021-12-31", "2022-01-03"} |->
                CASE d = "2021-01-04" ->
                        [open |-> Norm(22242, 100), close |-> Norm(21769, 100), volume |-> R(37130100)]
                  [] d = "2021-12-31" ->
                        [open |-> Norm(33632, 100), close |-> Norm(33469, 100), volume |-> R(21113900)]
                  [] OTHER ->
                        [open |-> Norm(33469, 100), close |-> Norm(33678, 100), volume |-> R(25892900)]]]

price_tolerance == <<1, 1000>>
volume_tolerance == <<1, 10>>

NoRow == [Open |-> RZero, Close |-> RZero, Volume |-> RZero, present |-> FALSE]

\* abs(row[...] - expected) / expected
Deviation(actual, expected) == RDiv(RAbs(RSub(actual, expected)), expected)

PointCorrect(df_row, expected_data) ==
    /\ RLeq(Deviation(df_row.Open, expected_data.open), price_tolerance)
    /\ RLeq(Deviation(df_row.Close, expected_data.close), price_tolerance)
    /\ RLeq(Deviation(df_row.Volume, expected_data.volume), volume_tolerance)

validate_known_data_points(symbol, df) ==
    IF symbol \notin DOMAIN validation_data
    THEN ROne
    ELSE LET known_points == validation_data[symbol]
             correct_points ==
                 Cardinality({d \in DOMAIN known_points :
                                 /\ d \in DOMAIN df
                                 /\ df[d].present
                                 /\ PointCorrect(df[d], known_points[d])})
             total_points == Cardinality(DOMAIN known_points)
         IN  IF total_points > 0 THEN Norm(correct_points, total_points) ELSE ROne

ValidateKnownDataPoints ==
    /\ UNCHANGED notKnown
    /\ kp_pc = "ready"
    /\ kp_score' = validate_known_data_points(kp_symbol, kp_df)
    /\ kp_pc' = "done"
    /\ UNCHANGED <<kp_symbol, kp_df>>

\* the tables given to the check: each reference date is missing or carries
\* the reference values, each multiplied by one of a few factors
KnownSymbols == {"AAPL", "MSFT", "TEST"}
PriceFactors == {ROne, Norm(2001, 2000), Norm(105, 100)}
OpenFactors == {ROne, Norm(105, 100)}
VolumeFactors == {ROne, Norm(6, 5)}
ReferenceOf(symbol) ==
    IF symbol \in DOMAIN validation_data THEN validation_data[symbol]
    ELSE validation_data["AAPL"]
RowsFor(expected_data) ==
    {NoRow} \cup
    {[Open |-> RMul(expected_data.open, fo), Close |-> RMul(expected_data.close, fc),
      Volume |-> RMul(expected_data.volume, fv), present |-> TRUE] :
        fo \in OpenFactors, fc \in PriceFactors, fv \in VolumeFactors}

ReferenceDates == <<"2021-01-04", "2021-12-31", "2022-01-03">>

KnownInit ==
    /\ kp_symbol \in KnownSymbols
    /\ \E r1 \in RowsFor(ReferenceOf(kp_symbol)[ReferenceDates[1]]),
          r2 \in RowsFor(ReferenceOf(kp_symbol)[ReferenceDates[2]]),
          r3 \in RowsFor(ReferenceOf(kp_symbol)[ReferenceDates[3]]) :
          kp_df = [d \in DOMAIN ReferenceOf(kp_symbol) |->
                      IF d = ReferenceDates[1] THEN r1
                      ELSE IF d = ReferenceDates[2] THEN r2 ELSE r3]
    /\ kp_score = <<>>
    /\ kp_pc = "ready"

KnownStart == KnownInit /\ SimIdle /\ EnhIdle /\ NetIdle /\ RunIdle /\ WFIdle /\ MCIdle /\ DDIdle /\ ValIdle /\ CliIdle /\ ParamsIdle /\ ReportIdle

KnownNext == ValidateKnownDataPoints

SpecKnown == KnownStart /\ [][KnownNext]_vars

MatchesReference(d) ==
    /\ kp_df[d].present
    /\ kp_df[d].Open = validation_data["AAPL"][d].open
    /\ kp_df[d].Close = validation_data["AAPL"][d].close
    /\ kp_df[d].Volume = validation_data["AAPL"][d].volume

ClosePerturbedFivePercent(d) ==
    /\ kp_df[d].present
    /\ kp_df[d].Close = RMul(validation_data["AAPL"][d].close, Norm(105, 100))

\* C16: an AAPL table whose 2021-01-04 row matches the reference scores 1.0
\* whether or not the other reference dates are in the table; with that
\* row's close perturbed by 5% the score is below 1.0.
C16_KnownPointScore ==
    (kp_pc = "done" /\ kp_symbol = "AAPL") =>
        /\ MatchesReference("2021-01-04") => kp_score = ROne
        /\ ClosePerturbedFivePercent("2021-01-04") => RLt(kp_score, ROne)

-----------------------------------------------------------------------------
(* The three-bar momentum scenario on the enhanced engine *)

\* lines 343-354: a frame without the RSI or MACD columns gets its Signal
\* from the price momentum alone
calculate_signals_price_only(prices, lookback, threshold) ==
    [t \in 1..Len(prices) |->
        [Price |-> prices[t],
         Signal |-> IF MomentumDown(prices, t, lookback, threshold) THEN -1
                    ELSE IF MomentumUp(prices, t, lookback, threshold) THEN 1
                    ELSE 0]]

ScenarioCapital == R(10000)
ScenarioPrices == {100, 110, 121}
ScenarioCloses == <<100, 110, 121>>
ScenarioThreshold == <<1, 20>>

ScenarioInit ==
    /\ parameters \in [initial_capital : {ScenarioCapital},
                       commission : EnhCommissions,
                       slippage : {RZero},
                       position_size : EnhPositionSizes,
                       lookback_period : {1},
                       momentum_threshold : {ScenarioThreshold}]
    /\ \E n \in 1..MaxBars :
         \E prices \in [1..n -> ScenarioPrices] :
            \/ signals = calculate_signals_price_only(prices, parameters.lookback_period,
                                                      parameters.momentum_threshold)
            \/ \E inds \in [1..n -> Indicators] :
                  signals = calculate_signals(prices, inds, parameters.lookback_period,
                                              parameters.momentum_threshold)
    /\ position = 0
    /\ entry_price = RZero
    /\ entry_date = 0
    /\ e_cash = parameters.initial_capital
    /\ e_trades = <<>>
    /\ row = 1
    /\ e_pc = "close"

ScenarioStart == ScenarioInit /\ SimIdle /\ NetIdle /\ RunIdle /\ WFIdle /\ MCIdle /\ DDIdle /\ ValIdle /\ KnownIdle /\ CliIdle /\ ParamsIdle /\ ReportIdle

ScenarioNext == EnhNext

SpecScenario == ScenarioStart /\ [][ScenarioNext]_vars

\* the scenario: closes 100, 110, 121, lookback 1, threshold 0.05 (momentum
\* 10% on bars 2 and 3), position_size 0.5, capital 10000, no costs
InScenario ==
    /\ signals = calculate_signals_price_only(ScenarioCloses, 1, ScenarioThreshold)
    /\ parameters.position_size = <<1, 2>>
    /\ parameters.initial_capital = ScenarioCapital
    /\ parameters.commission = RZero
    /\ parameters.slippage = RZero

\* C17: in the scenario exactly one entry is made, at bar 2 at price 110 for
\* 45 shares, and exactly one trade is recorded, with
\* net_pnl = (exit_price - 110) * 45.
C17_ScenarioOneEntryOneTrade ==
    (InScenario /\ e_pc = "done") =>
        /\ Len(e_trades) = 1
        /\ e_trades[1].entry_date = 2
        /\ e_trades[1].entry_price = R(110)
        /\ e_trades[1].shares = 45
        /\ e_trades[1].net_pnl = RMul(RSub(e_trades[1].exit_price, R(110)), R(45))

-----------------------------------------------------------------------------
(* The backtest command of polygon_backtesting_cli and of                   *)
(* enhanced_backtesting_cli: parse the arguments, call the engine of SpecRun, *)
(* print, and leave main                                                     *)

\* most symbols in the --symbols argument
MaxCliSymbols == 1

ParameterArguments == {"absent", "valid", "invalid"}

notCliRunNet == <<simVars, enhVars, wfVars, mcVars, ddVars, valVars, kpVars, parVars, repVars>>
notParams == <<simVars, enhVars, netVars, runVars, wfVars, mcVars, ddVars, valVars, kpVars, cliVars, repVars>>
notReport == <<simVars, enhVars, netVars, runVars, wfVars, mcVars, ddVars, valVars, kpVars, cliVars, parVars>>

\* polygon lines 22-31, enhanced lines 32-39: json.loads of --parameters;
\* polygon prints a line of text and returns, enhanced lands in its except
ParseParameters ==
    /\ UNCHANGED notCliRunNet
    /\ cli_pc = "start"
    /\ IF cli_parameters = "invalid"
       THEN /\ stdout' = IF engine = "polygon"
                         THEN [json |-> FALSE, success |-> "absent",
                               error |-> "Error: Invalid parameters JSON"]
                         ELSE [json |-> TRUE, success |-> "False", error |-> "str(e)"]
            /\ cli_pc' = "printed"
            /\ UNCHANGED <<r_pc, g_pc>>
       ELSE /\ cli_pc' = "engine"
            /\ r_pc' = "fetch"
            /\ g_pc' = IF engine = "polygon" THEN "spawn" ELSE g_pc
            /\ UNCHANGED stdout
    /\ UNCHANGED <<cli_parameters, exit_status>>
    /\ UNCHANGED <<engine, strategy_name, result, sim_ran, has_trades, validation, artifacts>>
    /\ UNCHANGED <<symbols, outcome, now, request_times, admitted, batch_start, tasks,
                   delay_until, data_dict>>

\* polygon lines 45-56, enhanced lines 51-58: print the engine's dictionary,
\* or the error dictionary of the except clause
PrintResult ==
    /\ UNCHANGED notCli
    /\ cli_pc = "engine"
    /\ Finished
    /\ stdout' = IF r_pc = "returned"
                 THEN [json |-> TRUE, success |-> result.success, error |-> result.error]
                 ELSE [json |-> TRUE, success |-> "False", error |-> "str(e)"]
    /\ cli_pc' = "printed"
    /\ UNCHANGED <<cli_parameters, exit_status>>

\* main returns after asyncio.run; neither file calls sys.exit
ExitProcess ==
    /\ UNCHANGED notCli
    /\ cli_pc = "printed"
    /\ exit_status' = 0
    /\ cli_pc' = "exited"
    /\ UNCHANGED <<cli_parameters, stdout>>

CliInit ==
    /\ engine \in {"polygon", "enhanced"}
    /\ strategy_name \in StrategyNames
    /\ r_pc = "idle"
    /\ result = NoResult
    /\ sim_ran = FALSE
    /\ has_trades = FALSE
    /\ validation = NoValidation
    /\ artifacts = {}
    /\ IF engine = "polygon"
       THEN /\ \E n \in 1..MaxCliSymbols :
                  /\ symbols = [k \in 1..n |-> k]
                  /\ outcome \in [1..n -> Answers]
            /\ now = 0
            /\ request_times = <<>>
            /\ admitted = <<>>
            /\ batch_start = 0
            /\ tasks = <<>>
            /\ g_pc = "idle"
            /\ delay_until = 0
            /\ data_dict = <<>>
       ELSE NetIdle
    /\ cli_parameters \in ParameterArguments
    /\ stdout = NoOutput
    /\ exit_status = -1
    /\ cli_pc = "start"

CliStart == CliInit /\ SimIdle /\ EnhIdle /\ WFIdle /\ MCIdle /\ DDIdle /\ ValIdle /\ KnownIdle /\ ParamsIdle /\ ReportIdle

CliNext ==
    \/ ParseParameters
    \/ RunNext
    \/ PrintResult
    \/ ExitProcess

SpecCli == CliStart /\ [][CliNext]_vars

\* the run is a fatal failure: unparsable parameters, a raised exception,
\* an unknown strategy or no data
FatalFailure ==
    \/ cli_parameters = "invalid"
    \/ r_pc = "raised"
    \/ r_pc = "returned" /\ result.success # "True"

\* C20: the backtest command ends with exit status 1 on a fatal failure,
\* having printed a JSON object with success false and an error, and with
\* exit status 0 only when the run succeeded.
C20_ExitStatusTellsFailure ==
    cli_pc = "exited" =>
        /\ FatalFailure =>
              /\ exit_status = 1
              /\ stdout.json
              /\ stdout.success = "False"
              /\ stdout.error # "none"
        /\ exit_status = 0 => ~FatalFailure

-----------------------------------------------------------------------------
(* get_historical_data when the data source throttles *)

\* most symbols of one fetch
MaxFetchSymbols == 3

\* throttled: the data source answers HTTP 429; like every status other than
\* 200 it makes get_historical_data return None (lines 138-141)
FetchAnswers == Answers \cup {"throttled"}

FetchInit ==
    /\ \E n \in 1..MaxFetchSymbols :
          /\ symbols = [k \in 1..n |-> k]
          /\ outcome \in [1..n -> FetchAnswers]
    /\ now = 0
    /\ request_times = <<>>
    /\ admitted = <<>>
    /\ batch_start = 0
    /\ tasks = <<>>
    /\ g_pc = "spawn"
    /\ delay_until = 0
    /\ data_dict = <<>>

FetchStart == FetchInit /\ SimIdle /\ EnhIdle /\ RunIdle /\ WFIdle /\ MCIdle /\ DDIdle /\ ValIdle /\ KnownIdle /\ CliIdle /\ ParamsIdle /\ ReportIdle

FetchNext == RateNext

SpecFetch == FetchStart /\ [][FetchNext]_vars

Throttled == {k \in 1..Len(symbols) : outcome[symbols[k]] = "throttled"}

\* C21: a throttled request is retried (with a backoff) before its symbol is
\* reported as failed: when the fetch has returned with a throttled symbol
\* left out, more requests were sent than there are symbols.
C21_ThrottledRequestIsRetried ==
    (g_pc = "returned" /\ Throttled # {}) =>
        /\ \A k \in Throttled : \A j \in 1..Len(data_dict) : data_dict[j] # symbols[k]
        /\ Len(admitted) > Len(symbols)

-----------------------------------------------------------------------------
(* The results dictionary of the Polygon simulation *)

\* lines 355-362: the keys of results; the loop adds no other key
results ==
    [trades |-> trades, positions |-> positions, portfolio_value |-> portfolio_value,
     cash |-> cash, total_value |-> total_value, dates |-> dates]

\* lines 441-448: the candidate at the head of the loop costs more than the cash
EntryRefused ==
    /\ pc = "entries"
    /\ strategy = "momentum"
    /\ queue # <<>>
    /\ LET price == Close(Head(queue), date)
           quantity == EntryQuantity(cash, price)
       IN  /\ RLt(RZero, quantity)
           /\ ~CanAfford(EntryCost(quantity, price), cash)

\* C22: an entry whose cost exceeds the cash is skipped: cash, positions and
\* trades are unchanged, the loop goes on with the next candidate, and the
\* skip is recorded in a diagnostics list of the results.
C22_RefusedEntrySkippedAndRecorded ==
    [][EntryRefused =>
          /\ cash' = cash
          /\ positions' = positions
          /\ trades' = trades
          /\ queue' = Tail(queue)
          /\ "diagnostics" \in DOMAIN results']_vars

-----------------------------------------------------------------------------
(* default_params['stop_loss'] and default_params['take_profit'] *)

\* lines 56-57; no line of the engine reads either key
stop_loss == <<1, 20>>
take_profit == <<3, 20>>

\* the close of the date is at or below entry_price * (1 - stop_loss) or at or
\* above entry_price * (1 + take_profit)
Breached(p, d) ==
    \/ RLeq(R(Close(p.symbol, d)), RMul(R(p.entry_price), RSub(ROne, stop_loss)))
    \/ RLeq(RMul(R(p.entry_price), RAdd(ROne, take_profit)), R(Close(p.symbol, d)))

\* C23: once the exit loop of a date is over, no position stays open whose
\* symbol has a bar on the date breaching its stop-loss or take-profit level,
\* whether or not the holding period has elapsed.
C23_BreachedPositionIsClosed ==
    (pc = "entries") =>
        \A k \in 1..Len(positions) :
            HasBar(positions[k].symbol, date) => ~Breached(positions[k], date)

-----------------------------------------------------------------------------
(* EnhancedBacktester._execute_trades on any signals frame *)

\* number of rows of the frame
MaxHoldBars == 4
HoldPrices == {1, 2}
HoldSignals == {-1, 0, 1}
\* a capital that buys one share and one that buys many
HoldCapitals == {R(2), R(InitialCapital)}

HoldInit ==
    /\ parameters \in [initial_capital : HoldCapitals,
                       commission : {RZero},
                       slippage : {RZero},
                       position_size : EnhPositionSizes,
                       lookback_period : {1},
                       momentum_threshold : {RZero}]
    /\ \E n \in 1..MaxHoldBars :
          signals \in [1..n -> [Price : HoldPrices, Signal : HoldSignals]]
    /\ position = 0
    /\ entry_price = RZero
    /\ entry_date = 0
    /\ e_cash = parameters.initial_capital
    /\ e_trades = <<>>
    /\ row = 1
    /\ e_pc = "close"

HoldStart == HoldInit /\ SimIdle /\ NetIdle /\ RunIdle /\ WFIdle /\ MCIdle /\ DDIdle /\ ValIdle /\ KnownIdle /\ CliIdle /\ ParamsIdle /\ ReportIdle

HoldNext == EnhNext

SpecHold == HoldStart /\ [][HoldNext]_vars

\* the direction of a position: 1 long, -1 short, 0 flat
Direction(p) == IF p > 0 THEN 1 ELSE IF p < 0 THEN -1 ELSE 0

\* C25: before the last bar an open position is closed only on a bar whose
\* signal differs from the direction of the position; a bar carrying the
\* same nonzero signal keeps it open and records no trade, for any number
\* of shares.
C25_SameSignalKeepsPosition ==
    [][(e_pc = "close" /\ row < Len(signals) /\ position # 0
        /\ Signal = Direction(position)) =>
          /\ position' = position
          /\ e_trades' = e_trades]_vars

-----------------------------------------------------------------------------
(* The ledger of the Polygon simulation *)

\* the sum of position['cost'] over the open positions
OpenCost == RSumSeq([k \in 1..Len(positions) |-> positions[k].cost])

\* C27: between any two steps of the simulation loops,
\* cash + the cost of all open positions = initial_capital + the pnl of all
\* recorded trades.
C27_LedgerBalances ==
    pc # "idle" =>
        RAdd(cash, OpenCost) = RAdd(params.initial_capital, TotalPnl(trades))

C27_Witness ==
    /\ Len(trades) >= 1
    /\ Len(positions) >= 1
    /\ RLt(RZero, params.commission)
    /\ \E i \in 1..Len(trades) : trades[i].pnl # RZero

-----------------------------------------------------------------------------
(* The parameters of PolygonBacktestingEngine.run_backtest: what the caller  *)
(* supplies, what is merged, and what the strategy loops read                *)

\* self.default_params, lines 50-59 (rebalance_frequency, a string, left out)
default_params ==
    [k \in {"initial_capital", "commission", "slippage", "position_size",
            "max_positions", "stop_loss", "take_profit"} |->
        CASE k = "initial_capital" -> R(100000)
          [] k = "commission"      -> <<1, 1000>>
          [] k = "slippage"        -> <<1, 2000>>
          [] k = "position_size"   -> <<1, 10>>
          [] k = "max_positions"   -> R(10)
          [] k = "stop_loss"       -> stop_loss
          [] OTHER                 -> take_profit]

\* self.strategy_templates[name]['parameters'], lines 62-82
strategy_templates ==
    [n \in KnownStrategies |->
        IF n = "momentum"
        THEN [k \in {"lookback_period", "momentum_threshold", "holding_period"} |->
                CASE k = "lookback_period"    -> R(20)
                  [] k = "momentum_threshold" -> <<1, 50>>
                  [] OTHER                    -> R(5)]
        ELSE [k \in {"rsi_period", "oversold_threshold", "overbought_threshold",
                     "holding_period"} |->
                CASE k = "rsi_period"           -> R(14)
                  [] k = "oversold_threshold"   -> R(OversoldThreshold)
                  [] k = "overbought_threshold" -> R(OverboughtThreshold)
                  [] OTHER                      -> R(10)]]

\* dict.get(key, default)
Get(dict, key, default) == IF key \in DOMAIN dict THEN dict[key] ELSE default

\* params = default_params.copy(); params.update(parameters)
Merged(parameters_arg) ==
    [k \in DOMAIN default_params \cup DOMAIN parameters_arg |->
        IF k \in DOMAIN parameters_arg THEN parameters_arg[k] ELSE default_params[k]]

\* lines 298-304: merge the parameters, look the strategy template up
MergeParameters ==
    /\ UNCHANGED notParams
    /\ rp_pc = "called"
    /\ rp_params' = Merged(rp_parameters)
    /\ rp_config' = strategy_templates[rp_strategy_name]
    /\ rp_pc' = "merged"
    /\ UNCHANGED <<rp_strategy_name, rp_parameters, rp_used>>

\* lines 370-373 and 472-476: config.get('parameters', {}).get(key, default);
\* params is not consulted
ReadStrategyParameters ==
    /\ UNCHANGED notParams
    /\ rp_pc = "merged"
    /\ rp_used' =
          IF rp_strategy_name = "momentum"
          THEN [k \in {"lookback_period", "momentum_threshold", "holding_period"} |->
                  CASE k = "lookback_period"    -> Get(rp_config, k, R(20))
                    [] k = "momentum_threshold" -> Get(rp_config, k, <<1, 50>>)
                    [] OTHER                    -> Get(rp_config, k, R(5))]
          ELSE [k \in {"rsi_period", "oversold_threshold", "overbought_threshold",
                       "holding_period"} |->
                  CASE k = "rsi_period"           -> Get(rp_config, k, R(14))
                    [] k = "oversold_threshold"   -> Get(rp_config, k, R(30))
                    [] k = "overbought_threshold" -> Get(rp_config, k, R(70))
                    [] OTHER                      -> Get(rp_config, k, R(10))]
    /\ rp_pc' = "read"
    /\ UNCHANGED <<rp_strategy_name, rp_parameters, rp_params, rp_config>>

\* the keys a caller may supply, and the values tried for each
CallerKeys == {"lookback_period", "momentum_threshold", "holding_period",
               "oversold_threshold", "overbought_threshold"}
CallerValues == {R(1), R(3)}

ParamsInit ==
    /\ rp_strategy_name \in KnownStrategies
    /\ \E K \in SUBSET CallerKeys : rp_parameters \in [K -> CallerValues]
    /\ rp_params = <<>>
    /\ rp_config = <<>>
    /\ rp_used = <<>>
    /\ rp_pc = "called"

ParamsStart == ParamsInit /\ SimIdle /\ EnhIdle /\ NetIdle /\ RunIdle /\ WFIdle /\ MCIdle /\ DDIdle /\ ValIdle /\ KnownIdle /\ CliIdle /\ ReportIdle

ParamsNext ==
    \/ MergeParameters
    \/ ReadStrategyParameters

SpecParams == ParamsStart /\ [][ParamsNext]_vars

\* C29: the simulation uses the strategy parameters the caller supplied, and
\* the template defaults only for the parameters the caller did not supply.
C29_CallerParametersAreUsed ==
    rp_pc = "read" =>
        \A k \in DOMAIN rp_used :
            rp_used[k] = IF k \in DOMAIN rp_parameters
                         THEN rp_parameters[k]
                         ELSE strategy_templates[rp_strategy_name][k]

\* ---------------------------------------------------------------------------
\* BacktestValidator.run_comprehensive_validation: the validation report
\* ---------------------------------------------------------------------------

\* self.thresholds['overall_accuracy'], in percent
OverallAccuracyThreshold == 75

\* the scores the two validations can return, in percent
ReportScores == {R(0), R(25), R(50), R(65), R(75), R(100)}

\* validate_backtest_data: passed = overall_score >= thresholds['data_quality']
DataValidation(score) ==
    [test_name |-> "Data Quality Validation",
     passed    |-> RLeq(R(DataQualityThreshold), score),
     score     |-> score,
     error_message |-> "None"]

\* validate_calculations: no trades fails with score 0.0, otherwise
\* passed = overall_score >= thresholds['calculation_accuracy']
CalculationValidation(any_trades, score) ==
    IF ~any_trades
    THEN [test_name |-> "Calculation Validation", passed |-> FALSE, score |-> RZero,
          error_message |-> "No trades to validate"]
    ELSE [test_name |-> "Calculation Validation",
          passed    |-> RLeq(R(CalculationAccuracyThreshold), score),
          score     |-> score,
          error_message |-> "None"]

\* _calculate_accuracy_metrics
AccuracyMetrics(results_dict) ==
    LET data_accuracy == results_dict["data_validation"].score
        calculation_accuracy == results_dict["calculation_validation"].score
        overall_accuracy == RDiv(RAdd(data_accuracy, calculation_accuracy), R(2))
    IN  [data_accuracy        |-> data_accuracy,
         calculation_accuracy |-> calculation_accuracy,
         strategy_accuracy    |-> R(100),
         overall_accuracy     |-> overall_accuracy,
         confidence_level     |-> RMin(R(100), RMul(overall_accuracy, <<11, 10>>)),
         validation_score     |-> RAdd(RMul(data_accuracy, <<2, 5>>),
                                       RMul(calculation_accuracy, <<3, 5>>))]

\* hasattr(result, 'passed'): the ValidationResults, not the AccuracyMetrics
HasPassed(results_dict) ==
    {k \in DOMAIN results_dict : "passed" \in DOMAIN results_dict[k]}

\* _generate_validation_report
GenerateValidationReport(results_dict) ==
    LET accuracy_metrics == results_dict["accuracy_metrics"]
        all_passed == \A k \in HasPassed(results_dict) : results_dict[k].passed
    IN  [overall_status |-> IF all_passed THEN "PASSED" ELSE "FAILED",
         accuracy_metrics |->
            [k \in {"data_accuracy", "calculation_accuracy", "overall_accuracy",
                    "confidence_level", "validation_score"} |-> accuracy_metrics[k]],
         threshold_compliance |->
            [data_quality |->
                RLeq(R(DataQualityThreshold), accuracy_metrics.data_accuracy),
             calculation_accuracy |->
                RLeq(R(CalculationAccuracyThreshold),
                     accuracy_metrics.calculation_accuracy),
             overall_accuracy |->
                RLeq(R(OverallAccuracyThreshold), accuracy_metrics.overall_accuracy)],
         summary |->
            [passed_tests |-> Cardinality({k \in HasPassed(results_dict) :
                                              results_dict[k].passed}),
             failed_tests |-> Cardinality({k \in HasPassed(results_dict) :
                                              ~results_dict[k].passed})]]

\* validation_results[key] = value
Put(dict, key, value) ==
    [k \in DOMAIN dict \cup {key} |-> IF k = key THEN value ELSE dict[k]]

\* lines 515-517: the data validation
ReportDataValidation ==
    /\ UNCHANGED notReport
    /\ cv_pc = "called"
    /\ \E score \in ReportScores :
          validation_results' =
              Put(validation_results, "data_validation", DataValidation(score))
    /\ cv_pc' = "data"

\* lines 519-521: the calculation validation
ReportCalculationValidation ==
    /\ UNCHANGED notReport
    /\ cv_pc = "data"
    /\ \E any_trades \in BOOLEAN, score \in ReportScores :
          validation_results' =
              Put(validation_results, "calculation_validation",
                  CalculationValidation(any_trades, score))
    /\ cv_pc' = "calculation"

\* lines 523-525: the accuracy metrics
ReportAccuracyMetrics ==
    /\ UNCHANGED notReport
    /\ cv_pc = "calculation"
    /\ validation_results' =
          Put(validation_results, "accuracy_metrics", AccuracyMetrics(validation_results))
    /\ cv_pc' = "metrics"

\* lines 527-534: the report, then the save and the return
ReportGenerate ==
    /\ UNCHANGED notReport
    /\ cv_pc = "metrics"
    /\ validation_results' =
          Put(validation_results, "validation_report",
              GenerateValidationReport(validation_results))
    /\ cv_pc' = "returned"

ReportInit ==
    /\ validation_results = <<>>
    /\ cv_pc = "called"

ReportStart == ReportInit /\ SimIdle /\ EnhIdle /\ NetIdle /\ RunIdle /\ WFIdle /\ MCIdle /\ DDIdle /\ ValIdle /\ KnownIdle /\ CliIdle /\ ParamsIdle

ReportNext ==
    \/ ReportDataValidation
    \/ ReportCalculationValidation
    \/ ReportAccuracyMetrics
    \/ ReportGenerate

SpecReport == ReportStart /\ [][ReportNext]_vars

\* C30: a report whose overall_status is 'PASSED' has every entry of
\* threshold_compliance True, in particular the overall accuracy is at least
\* thresholds['overall_accuracy'].
C30_PassedMeetsEveryThreshold ==
    (cv_pc = "returned"
        /\ validation_results["validation_report"].overall_status = "PASSED")
    => /\ \A k \in DOMAIN validation_results["validation_report"].threshold_compliance :
             validation_results["validation_report"].threshold_compliance[k]
       /\ RLeq(R(OverallAccuracyThreshold),
               validation_results["validation_report"].accuracy_metrics.overall_accuracy)

====
